---- MODULE Spec2Model ----
(***************************************************************************)
(* State-machine model of the stream backend queue (Zeus::MTCP::MTCPQueue, *)
(* src/libos/libmtcp/mtcp-queue.cc): one queue object, the byte-stream     *)
(* transport under it, and the caller that issues the public operations;   *)
(* and of the packet backend queue (dmtr::lwip_queue,                      *)
(* src/unnamed/part_000): three queues on two hosts joined by one link.    *)
(* Spec runs the stream backend, PktSpec the packet backend.               *)
(*                                                                         *)
(* The wire is modelled byte by byte.  A 64-bit word is eight bytes in     *)
(* host (little-endian) order.  Assertions are modelled as compiled in: a  *)
(* failing assert stops the process (variable aborted).                    *)
(***************************************************************************)
EXTENDS Integers, Sequences, FiniteSets, TLC

\* ------------------------------------------------------------------------
\* Program constants
\* ------------------------------------------------------------------------
\* sizeof(req.header): three 64-bit words.
HeaderSize == 24

\* sizeof(size_t) == sizeof(sga.bufs[i].len): one length cell.
WordSize == 8

\* Frame sentinel, defined in mtcp-queue.h.
MAGIC == 269492240

\* errno values, by name: the one the code distinguishes (EAGAIN, which is
\* EWOULDBLOCK) and those the transport reports for hard failures.
EAGAIN == "EAGAIN"

EBADF == "EBADF"

ENOTCONN == "ENOTCONN"

ECONNRESET == "ECONNRESET"

\* The value of errno e, as -errno returns it.
ErrnoValue(e) ==
    CASE e = EAGAIN -> 11
      [] e = EBADF -> 9
      [] e = ECONNRESET -> 104
      [] e = ENOTCONN -> 107

\* ------------------------------------------------------------------------
\* Bounds of the model
\* ------------------------------------------------------------------------
\* Number of push/pop submissions the caller makes.
MaxSubmits == 2

\* Number of peek calls the caller makes.
MaxPeeks == 1

\* Number of frames the peer writes to the connection.
MaxPeerFrames == 1

\* Largest number of bytes one read may return.
MaxChunk == 64

\* Send window of a writable connection.
MaxWin == 64

\* Bytes a short write accepts.
ShortWrite == 30

\* Number of connections the peer opens towards a listening queue.
MaxConns == 2

\* Submissions of the caller and frames of the peer, taken together.
MaxLoad == 3

\* ------------------------------------------------------------------------
\* Helpers
\* ------------------------------------------------------------------------
Min(a, b) == IF a < b THEN a ELSE b

\* No token: one below the least token.
NoToken == 0 - 1

\* Tokens are minted monotonically: the k-th submission (k from 0) gets
\* 2k, plus the operation bit.
Tokens == 0..(2 * MaxSubmits - 1)

Mint(k, push) == 2 * k + (IF push THEN 1 ELSE 0)

\* IS_PUSH(qt): the operation bit is the low bit of the token.
IS_PUSH(qt) == qt % 2 = 1

RECURSIVE Pow256(_)
Pow256(i) == IF i = 0 THEN 1 ELSE 256 * Pow256(i - 1)

\* The eight bytes of a 64-bit word in host order, as writev sends a
\* uint64_t / size_t cell.  Every word the model encodes is below 2^31, so
\* bytes 5..8 are zero.
U64Bytes(v) ==
    [i \in 1..WordSize |-> IF i <= 4 THEN (v \div Pow256(i - 1)) % 256 ELSE 0]

\* Stands for every word of 2^24 or more: larger than any length the model
\* builds, and within the integers of the model checker.
Huge == 64 * Pow256(3)

RECURSIVE U64Low(_, _, _)
\* The number formed by bytes off+1 .. off+k of b, least significant first.
U64Low(b, off, k) ==
    IF k = 0 THEN 0
    ELSE b[off + k] * Pow256(k - 1) + U64Low(b, off, k - 1)

\* The word read by *(uint64_t *)(b + off): bytes off+1 .. off+8 of b in
\* host order.
U64At(b, off) ==
    IF \E i \in 4..WordSize : b[off + i] # 0 THEN Huge
    ELSE U64Low(b, off, 3)

\* a - b on size_t.  A wrapped difference (a < b) is kept as the negative
\* number a - b, which stands for 2^64 + a - b and equals no size the model
\* can build.
SubSize(a, b) == a - b

Max(a, b) == IF a > b THEN a ELSE b

\* A store that ignores the offset: every read lands at the start of the
\* array.
WriteFront(arr, off, data) ==
    [i \in 1..Max(Len(arr), Len(data)) |->
        IF i <= Len(data) THEN data[i] ELSE arr[i]]

\* Copy data into array arr starting at byte offset off (0-based), as a read
\* into (char *)arr + off does.  An array is kept up to the last byte ever
\* written to it; a byte not written yet reads as 0.
WriteAt(arr, off, data) ==
    [i \in 1..(IF data = <<>> THEN Len(arr) ELSE Max(Len(arr), off + Len(data))) |->
        IF i > off /\ i <= off + Len(data) THEN data[i - off]
        ELSE IF i <= Len(arr) THEN arr[i] ELSE 0]

RECURSIVE SumLens(_)
SumLens(sga) ==
    IF sga = <<>> THEN 0 ELSE Len(Head(sga)) + SumLens(Tail(sga))

RECURSIVE Cells(_)
\* The iovec entries 1 .. 2*num_bufs of ProcessOutgoing, concatenated: for
\* every segment its length cell, then its body.
Cells(sga) ==
    IF sga = <<>> THEN <<>>
    ELSE U64Bytes(Len(Head(sga))) \o Head(sga) \o Cells(Tail(sga))

\* ------------------------------------------------------------------------
\* Inputs
\* ------------------------------------------------------------------------
\* Scatter-gather arrays the caller pushes and the peer sends: a sequence of
\* segments, each a sequence of bytes.
AppSgas ==
    { << <<>> >>,
      << <<65>> >>,
      << <<66>>, <<67, 68>> >> }

\* Frames the peer can send that the encoder never produces.
\* A well-formed frame of one 1-byte segment behind a wrong sentinel.
BadMagicFrame ==
    U64Bytes(MAGIC + 1) \o U64Bytes(WordSize + 1) \o U64Bytes(1)
        \o U64Bytes(1) \o <<69>>

\* A header announcing zero segments and an empty payload.
ZeroSegFrame == U64Bytes(MAGIC) \o U64Bytes(0) \o U64Bytes(0)

\* One segment record of 1 byte followed by a byte no record accounts for.
TrailingByteFrame ==
    U64Bytes(MAGIC) \o U64Bytes(WordSize + 2) \o U64Bytes(1)
        \o U64Bytes(1) \o <<70, 71>>

\* A short read: fewer bytes than a header, not a multiple of a word.
ShortRead == 9

\* The settings a run is explored in.  chunk is the delivery granularity of
\* the network (the most bytes one read returns), win the send window at the
\* start, flow tells that the send window opens and closes during the run,
\* faults that the peer may close or reset the connection and may send
\* frames that the framing protocol does not allow, peeks that the
\* caller uses peek, fresh that the queue sits on a handle made by socket()
\* (else on one returned by accept).
Worlds ==
    { [chunk |-> 1, win |-> 0, flow |-> FALSE, faults |-> FALSE,
       peeks |-> FALSE, fresh |-> FALSE],
      [chunk |-> ShortRead, win |-> MaxWin, flow |-> FALSE, faults |-> FALSE,
       peeks |-> TRUE, fresh |-> FALSE],
      [chunk |-> MaxChunk, win |-> MaxWin, flow |-> TRUE, faults |-> FALSE,
       peeks |-> FALSE, fresh |-> TRUE],
      [chunk |-> MaxChunk, win |-> MaxWin, flow |-> FALSE, faults |-> TRUE,
       peeks |-> FALSE, fresh |-> FALSE] }

\* Send windows: 0 is "would block".
Windows == {0, MaxWin}

\* Readiness interest bits (MTCP_EPOLLIN, MTCP_EPOLLOUT).
EPOLLIN == "IN"

EPOLLOUT == "OUT"

\* ------------------------------------------------------------------------
\* State
\* ------------------------------------------------------------------------
VARIABLES
    pending,     \* MTCPQueue::pending : token -> PendingRequest
    workQ,       \* MTCPQueue::workQ   : FIFO of tokens
    accepts,     \* MTCPQueue::accepts : FIFO of accepted (fd, addr)
    listening,   \* MTCPQueue::listening
    mtcp_evts,   \* MTCPQueue::mtcp_evts : interest bits the queue recorded
    conn,        \* transport: state of the handle mtcp_qd
    nonblock,    \* transport: handle is in non-blocking mode
    epoll,       \* transport: interest registered for each handle with mtcp_ep
    rxLog,       \* transport: every byte the peer has written, in order
    rxPos,       \* transport: number of bytes of rxLog already read
    txWin,       \* transport: bytes the next writev can accept
    backlog,     \* transport: connections waiting for mtcp_accept
    world,       \* the setting of the run, an element of Worlds
    waiting,     \* caller: token the blocked wait() is looping on, or NoToken
    spin,        \* caller: parity of the iterations of the current wait loop
    aborted,     \* "none", or the assertion that stopped the process
    lastOp,      \* history: the last public call, its arguments and result
    nsub,        \* history: number of push/pop submissions so far
    npeek,       \* history: number of peek calls so far
    npeer,       \* history: number of frames the peer has written
    nconn,       \* history: number of connections the peer has opened
    my_bound_addr,   \* lwip_queue::my_bound_addr, per queue
    my_default_peer, \* lwip_queue::my_default_peer, per queue
    my_recv_queue,   \* lwip_queue::my_recv_queue, per queue
    tasks,       \* the tasks of each packet queue: token -> task
    nic,         \* per host: the packets in the receive ring of its NIC
    plast,       \* history: the last call on a packet queue and its result
    ptok,        \* history: number of tokens minted for packet queues
    pctl,        \* history: number of bind/connect/close calls
    pinj,        \* history: number of packets arrived from outside
    dpdk,        \* process: our_dpdk_init_flag, our_dpdk_port_id,
                 \* our_mbuf_pool, and how often each step of init_dpdk ran
    menv         \* process: mtcp_env_initialized, mctx, mtcp_ep, and how
                 \* often each step of mtcp_env_init ran

\* The variables of the stream backend.
svars ==
    << pending, workQ, accepts, listening, mtcp_evts, conn, nonblock, epoll,
       rxLog, rxPos, txWin, backlog, world, waiting, spin, aborted,
       lastOp, nsub, npeek, npeer, nconn >>

\* The variables of the packet backend.
pktvars ==
    << my_bound_addr, my_default_peer, my_recv_queue, tasks, nic, plast,
       ptok, pctl, pinj >>

\* The process-wide state of the two backends.
procvars == << dpdk, menv >>

vars == << svars, pktvars, procvars >>

\* The queue's own fields.
qvars == << pending, workQ, accepts, listening, mtcp_evts >>

\* The handle of the queue (mtcp_qd) and the handles accept hands out.
QFd == 3

ConnFd(k) == 10 + k

\* ------------------------------------------------------------------------
\* Byte-stream transport (mtcp_read, mtcp_writev, mtcp_accept)
\* ------------------------------------------------------------------------
HardErrno ==
    CASE conn = "closed" -> EBADF
      [] conn = "reset" -> ECONNRESET
      [] OTHER -> ENOTCONN

\* mtcp_read(mctx, mtcp_qd, p, n) with the stream at offset pos.
mtcp_read(pos, n) ==
    IF conn \notin {"open", "peer_closed"}
    THEN [count |-> -1, errno |-> HardErrno, data |-> <<>>]
    ELSE IF pos = Len(rxLog)
    THEN IF conn = "peer_closed"
         THEN [count |-> 0, errno |-> "none", data |-> <<>>]
         ELSE [count |-> -1, errno |-> EAGAIN, data |-> <<>>]
    ELSE LET k == Min(Min(n, world.chunk), Len(rxLog) - pos)
         IN [count |-> k, errno |-> "none", data |-> SubSeq(rxLog, pos + 1, pos + k)]

\* mtcp_writev(mctx, mtcp_qd, vsga, cnt): bytes is the concatenation of the
\* iovec entries; short tells that the send buffer has room for ShortWrite
\* bytes only.
mtcp_writev(bytes, short) ==
    IF conn \notin {"open", "peer_closed"}
    THEN [count |-> -1, errno |-> HardErrno]
    ELSE IF txWin = 0
    THEN [count |-> -1, errno |-> EAGAIN]
    ELSE [count |-> Min(Len(bytes), IF short THEN ShortWrite ELSE txWin),
          errno |-> "none"]

\* mtcp_accept(mctx, mtcp_qd, &saddr, &size) on a non-blocking handle.
mtcp_accept ==
    IF conn # "listen"
    THEN [fd |-> -1, errno |-> HardErrno, addr |-> 0]
    ELSE IF backlog = <<>>
    THEN [fd |-> -1, errno |-> EAGAIN, addr |-> 0]
    ELSE [fd |-> Head(backlog).fd, errno |-> "none", addr |-> Head(backlog).addr]

\* ------------------------------------------------------------------------
\* Pending requests
\* ------------------------------------------------------------------------
\* PendingRequest(sga): the record built by Enqueue, peek and accept.  The
\* g_ fields are history: g_from is the stream offset of the first byte the
\* request received (-1: none yet), g_contig tells that every byte it
\* received followed the previous one in the stream, g_reads counts its reads
\* that returned bytes, g_ones tells that each of them returned one byte and
\* g_zero that a read of it returned no bytes.
PendingRequest(sga) ==
    [ isDone |-> FALSE,
      res |-> 0,
      header |-> [i \in 1..HeaderSize |-> 0],
      bufNull |-> TRUE,
      bufSize |-> 0,
      buf |-> <<>>,
      num_bytes |-> 0,
      sga |-> sga,
      g_from |-> -1,
      g_contig |-> TRUE,
      g_reads |-> 0,
      g_ones |-> TRUE,
      g_zero |-> FALSE ]

\* History update of a request for a read at stream offset pos that
\* returned rd.
NoteRead(req, pos, rd) ==
    IF rd.count < 0 THEN req
    ELSE IF rd.count = 0 THEN [req EXCEPT !.g_zero = TRUE]
    ELSE [req EXCEPT
            !.g_from = IF req.g_from = -1 THEN pos ELSE @,
            !.g_contig = @ /\ (req.g_from = -1 \/ pos = req.g_from + req.num_bytes),
            !.g_reads = @ + 1,
            !.g_ones = @ /\ rd.count = 1]

\* header[i] of the request, i in 0..2.
HeaderWord(req, i) == U64At(req.header, i * WordSize)

RECURSIVE FillSga(_, _, _)
\* The loop that slices the payload buffer into segments: n records left,
\* ptr is the offset of the next length cell.  A segment body aliases the
\* buffer, whose dataLen bytes are all written when the loop runs.  oob tells
\* that a cell or a body lies beyond the buffer.
FillSga(buf, ptr, n) ==
    IF n = 0 THEN [segs |-> <<>>, len |-> 0, oob |-> FALSE]
    ELSE IF ptr + WordSize > Len(buf)
    THEN [segs |-> <<>>, len |-> 0, oob |-> TRUE]
    ELSE LET l == U64At(buf, ptr)
             body == ptr + WordSize
         IN IF body + l > Len(buf)
            THEN [segs |-> <<>>, len |-> 0, oob |-> TRUE]
            ELSE LET rest == FillSga(buf, body + l, n - 1)
                 IN [segs |-> <<SubSeq(buf, body + 1, body + l)>> \o rest.segs,
                     len |-> l + rest.len,
                     oob |-> rest.oob]

\* A listening branch without the test of newfd: whatever mtcp_accept
\* returned is completed and queued.
AcceptBranchUnchecked(req) ==
    IF ~listening
    THEN [ret |-> FALSE, req |-> req, accepts |-> accepts, backlog |-> backlog]
    ELSE [ret |-> FALSE,
          req |-> [req EXCEPT !.isDone = TRUE, !.res = mtcp_accept.fd],
          accepts |-> Append(accepts, [fd |-> mtcp_accept.fd,
                                       addr |-> mtcp_accept.addr]),
          backlog |-> IF backlog = <<>> THEN backlog ELSE Tail(backlog)]

\* The listening branch at the head of ProcessIncoming.  ret tells that the
\* function returned from inside the branch.
AcceptBranch(req) ==
    IF ~listening
    THEN [ret |-> FALSE, req |-> req, accepts |-> accepts, backlog |-> backlog]
    ELSE LET a == mtcp_accept
         IN IF a.fd = -1
            THEN IF a.errno = EAGAIN
                 THEN [ret |-> TRUE, req |-> req,
                       accepts |-> accepts, backlog |-> backlog]
                 ELSE [ret |-> FALSE,
                       req |-> [req EXCEPT !.isDone = TRUE, !.res = -1],
                       accepts |-> accepts, backlog |-> backlog]
            ELSE [ret |-> FALSE,
                  req |-> [req EXCEPT !.isDone = TRUE, !.res = a.fd],
                  accepts |-> Append(accepts, [fd |-> a.fd, addr |-> a.addr]),
                  backlog |-> Tail(backlog)]

\* bufs[0].len after the loop filled f: written by the loop when it ran,
\* else what the caller's sgarray held.
FirstLen(req, f) ==
    IF f.segs # <<>> THEN Len(f.segs[1])
    ELSE IF req.sga # <<>> THEN Len(req.sga[1]) ELSE 0

\* The assertions at the end of ProcessIncoming, on the n segments f the
\* loop sliced out of the dataLen bytes of payload, and the completion.
CheckSga(req, dataLen, n, f) ==
    IF f.oob
    THEN [req |-> [req EXCEPT !.sga = f.segs], abort |-> "read beyond req.buf"]
    ELSE IF FirstLen(req, f) # SubSize(dataLen, WordSize)
    THEN [req |-> [req EXCEPT !.sga = f.segs],
          abort |-> "assert bufs[0].len == dataLen - sizeof(len)"]
    ELSE IF n # 1
    THEN [req |-> [req EXCEPT !.sga = f.segs],
          abort |-> "assert num_bufs == 1"]
    ELSE IF f.len # SubSize(dataLen, n * WordSize)
    THEN [req |-> [req EXCEPT !.sga = f.segs],
          abort |-> "assert len == dataLen - num_bufs * sizeof(size_t)"]
    ELSE [req |-> [req EXCEPT !.sga = f.segs, !.isDone = TRUE, !.res = f.len],
          abort |-> "none"]

\* The tail of ProcessIncoming once the whole payload is in req.buf: fill
\* the sga, check the assertions, complete the request.
FinishIncoming(req, dataLen) ==
    CheckSga(req, dataLen, HeaderWord(req, 2),
             FillSga(req.buf, 0, HeaderWord(req, 2)))

\* A faulty variant of MagicOk: the sentinel is not checked.
MagicAny(req) == TRUE

\* req.header[0] == MAGIC.
MagicOk(req) == SubSeq(req.header, 1, WordSize) = U64Bytes(MAGIC)

\* The payload phase of ProcessIncoming, entered with a complete header at
\* stream offset pos; nr is the number of reads issued so far.
PayloadPhase(req, pos, nr) ==
    IF ~MagicOk(req)
    THEN [req |-> [req EXCEPT !.isDone = TRUE, !.res = -1],
          pos |-> pos, nreads |-> nr, abort |-> "none"]
    ELSE
    LET dataLen == HeaderWord(req, 1)
        r0 == IF req.bufNull
              THEN [req EXCEPT !.bufNull = FALSE, !.bufSize = dataLen]
              ELSE req
        offset == r0.num_bytes - HeaderSize
    IN IF r0.num_bytes < HeaderSize + dataLen
       THEN LET rd == mtcp_read(pos, dataLen - offset)
            IN IF rd.count < 0
               THEN IF rd.errno = EAGAIN
                    THEN [req |-> r0, pos |-> pos, nreads |-> nr + 1,
                          abort |-> "none"]
                    ELSE [req |-> [r0 EXCEPT !.isDone = TRUE, !.res = rd.count],
                          pos |-> pos, nreads |-> nr + 1, abort |-> "none"]
               ELSE LET r1 == [NoteRead(r0, pos, rd) EXCEPT
                                 !.buf = WriteAt(@, offset, rd.data),
                                 !.num_bytes = @ + rd.count]
                    IN IF r1.num_bytes < HeaderSize + dataLen
                       THEN [req |-> r1, pos |-> pos + rd.count,
                             nreads |-> nr + 1, abort |-> "none"]
                       ELSE FinishIncoming(r1, dataLen)
                                @@ [pos |-> pos + rd.count, nreads |-> nr + 1]
       ELSE FinishIncoming(r0, dataLen) @@ [pos |-> pos, nreads |-> nr]

\* A header phase that takes a read of no bytes for the end of the request:
\* the request is completed with result 0.
ReadFrameEof(req) ==
    IF req.num_bytes < HeaderSize
    THEN LET rd == mtcp_read(rxPos, HeaderSize - req.num_bytes)
         IN IF rd.count < 0
            THEN IF rd.errno = EAGAIN
                 THEN [req |-> req, pos |-> rxPos, nreads |-> 1,
                       abort |-> "none"]
                 ELSE [req |-> [req EXCEPT !.isDone = TRUE, !.res = rd.count],
                       pos |-> rxPos, nreads |-> 1, abort |-> "none"]
            ELSE IF rd.count = 0
            THEN [req |-> [NoteRead(req, rxPos, rd) EXCEPT
                             !.isDone = TRUE, !.res = 0],
                  pos |-> rxPos, nreads |-> 1, abort |-> "none"]
            ELSE LET r1 == [NoteRead(req, rxPos, rd) EXCEPT
                              !.header = WriteAt(@, req.num_bytes, rd.data),
                              !.num_bytes = @ + rd.count]
                 IN IF r1.num_bytes < HeaderSize
                    THEN [req |-> r1, pos |-> rxPos + rd.count, nreads |-> 1,
                          abort |-> "none"]
                    ELSE PayloadPhase(r1, rxPos + rd.count, 1)
    ELSE PayloadPhase(req, rxPos, 0)

\* ProcessIncoming after the listening branch: header phase, then payload
\* phase.
ReadFrame(req) ==
    IF req.num_bytes < HeaderSize
    THEN LET rd == mtcp_read(rxPos, HeaderSize - req.num_bytes)
         IN IF rd.count < 0
            THEN IF rd.errno = EAGAIN
                 THEN [req |-> req, pos |-> rxPos, nreads |-> 1,
                       abort |-> "none"]
                 ELSE [req |-> [req EXCEPT !.isDone = TRUE, !.res = rd.count],
                       pos |-> rxPos, nreads |-> 1, abort |-> "none"]
            ELSE LET r1 == [NoteRead(req, rxPos, rd) EXCEPT
                              !.header = WriteAt(@, req.num_bytes, rd.data),
                              !.num_bytes = @ + rd.count]
                 IN IF r1.num_bytes < HeaderSize
                    THEN [req |-> r1, pos |-> rxPos + rd.count, nreads |-> 1,
                          abort |-> "none"]
                    ELSE PayloadPhase(r1, rxPos + rd.count, 1)
    ELSE PayloadPhase(req, rxPos, 0)

\* MTCPQueue::ProcessIncoming(req).
ProcessIncoming(req) ==
    LET a == AcceptBranch(req)
    IN IF a.ret
       THEN [req |-> a.req, pos |-> rxPos, nreads |-> 0, abort |-> "none",
             wrote |-> <<>>, accepts |-> a.accepts, backlog |-> a.backlog]
       ELSE ReadFrame(a.req)
                @@ [wrote |-> <<>>, accepts |-> a.accepts,
                    backlog |-> a.backlog]

\* The frame ProcessOutgoing hands to writev: header, then the cells.
FrameHeader(sga) ==
    U64Bytes(MAGIC) \o U64Bytes(SumLens(sga) + Len(sga) * WordSize)
        \o U64Bytes(Len(sga))

FrameBytes(sga) == FrameHeader(sga) \o Cells(sga)

\* MTCPQueue::ProcessOutgoing(req).
ProcessOutgoing(req, short) ==
    LET sga == req.sga
        dataSize == SumLens(sga)
        totalLen == SumLens(sga) + Len(sga) * WordSize + HeaderSize
        r0 == [req EXCEPT !.header = FrameHeader(sga)]
        w == mtcp_writev(FrameBytes(sga), short)
        out(r, bytes, ab) ==
            [req |-> r, pos |-> rxPos, nreads |-> 0, abort |-> ab,
             wrote |-> bytes, accepts |-> accepts, backlog |-> backlog]
    IN IF w.count < 0
       THEN IF w.errno = EAGAIN
            THEN out(r0, <<>>, "none")
            ELSE out([r0 EXCEPT !.isDone = TRUE, !.res = w.count], <<>>, "none")
       ELSE LET r1 == [r0 EXCEPT !.num_bytes = @ + w.count]
                bytes == SubSeq(FrameBytes(sga), 1, w.count)
            IN IF r1.num_bytes < totalLen
               THEN out(r1, bytes,
                        IF r1.num_bytes = 0 THEN "none"
                        ELSE "assert req.num_bytes == 0")
               ELSE out([r1 EXCEPT !.res = dataSize, !.isDone = TRUE],
                        bytes, "none")

\* An attempt that decodes whatever the token is.
AttemptIncoming(qt, req, short) == ProcessIncoming(req)

\* The dispatch on the operation bit shared by ProcessQ and Enqueue.
Attempt(qt, req, short) ==
    IF IS_PUSH(qt) THEN ProcessOutgoing(req, short) ELSE ProcessIncoming(req)

\* A faulty variant of StoreRequest: the completion flag and the result are
\* written to every record of the map.
StoreRequestAll(p, qt, req) ==
    [t \in DOMAIN p |->
        IF t = qt THEN req
        ELSE [p[t] EXCEPT !.isDone = req.isDone, !.res = req.res]]

\* pending[qt] = req, as the map assignment through the iterator does.
StoreRequest(p, qt, req) == [p EXCEPT ![qt] = req]

\* pending.insert(std::make_pair(qt, req)).
InsertRequest(p, qt, req) ==
    [t \in DOMAIN p \cup {qt} |-> IF t = qt THEN req ELSE p[t]]

\* A step that removes the head of the work queue whether or not its
\* request is done.
PopAlways(q, req) == Tail(q)

\* A work queue that keeps its head whatever the attempt gave.
PopNever(q, req) == q

\* The work queue after an attempt on its head: popped iff the request is
\* done.
PopIfDone(q, req) == IF req.isDone THEN Tail(q) ELSE q

\* An iteration of the loop of ProcessQ that attempts nothing and leaves
\* the work queue wq.
Idle(wq) ==
    [pending |-> pending, workQ |-> wq, attempted |-> NoToken,
     req |-> PendingRequest(<<>>), pos |-> rxPos, nreads |-> 0,
     abort |-> "none", wrote |-> <<>>, accepts |-> accepts,
     backlog |-> backlog]

\* The end of an iteration of the loop of ProcessQ whose attempt on the
\* request of qt, which is a reference into pending, gave r.
Attempted(qt, r) ==
    [pending |-> StoreRequest(pending, qt, r.req),
     workQ |-> IF r.abort = "none" THEN PopIfDone(workQ, r.req) ELSE workQ,
     attempted |-> qt]
        @@ r

\* One iteration of the loop of MTCPQueue::ProcessQ, which is all of
\* ProcessQ(1).  attempted is the token whose request was attempted.
ProcessQ(short) ==
    IF workQ = <<>> THEN Idle(workQ)
    ELSE IF Head(workQ) \notin DOMAIN pending THEN Idle(Tail(workQ))
    ELSE Attempted(Head(workQ),
                   Attempt(Head(workQ), pending[Head(workQ)], short))

\* A faulty variant of SyncResult: the bytes transferred, header and length
\* cells included.
SyncResultTotal(req) == req.num_bytes

\* What Enqueue returns for a request that is done after the first attempt.
SyncResult(req) == req.res

\* An end of Enqueue without the assertion on the pending map.
ParkUnchecked(qt, r) ==
    IF r.abort # "none"
    THEN [ret |-> 0, pending |-> pending, workQ |-> workQ, attempted |-> qt]
            @@ r
    ELSE IF r.req.isDone
    THEN [ret |-> r.req.res, pending |-> pending, workQ |-> workQ,
          attempted |-> qt] @@ r
    ELSE [ret |-> 0, pending |-> InsertRequest(pending, qt, r.req),
          workQ |-> Append(workQ, qt), attempted |-> qt] @@ r

\* The end of Enqueue, after its attempt on the local request gave r.
Park(qt, r) ==
    IF r.abort # "none"
    THEN [ret |-> 0, pending |-> pending, workQ |-> workQ, attempted |-> qt]
            @@ r
    ELSE IF r.req.isDone
    THEN [ret |-> SyncResult(r.req), pending |-> pending, workQ |-> workQ,
          attempted |-> qt] @@ r
    ELSE IF qt \in DOMAIN pending
    THEN [ret |-> 0, pending |-> pending, workQ |-> workQ, attempted |-> qt,
          abort |-> "assert pending.find(qt) == pending.end()"] @@ r
    ELSE [ret |-> 0, pending |-> InsertRequest(pending, qt, r.req),
          workQ |-> Append(workQ, qt), attempted |-> qt] @@ r

\* MTCPQueue::Enqueue(qt, sga).
Enqueue(qt, sga, short) == Park(qt, Attempt(qt, PendingRequest(sga), short))

\* mtcp_epoll_ctl(mctx, mtcp_ep, op, fd, &ev): ADD registers a handle that is
\* not registered, MOD changes one that is, DEL removes it; otherwise the
\* call fails and changes nothing.
EpollAdd(ep, fd, bits) ==
    IF fd \in DOMAIN ep THEN ep
    ELSE [f \in DOMAIN ep \cup {fd} |-> IF f = fd THEN bits ELSE ep[f]]

EpollMod(ep, fd, bits) ==
    IF fd \in DOMAIN ep THEN [ep EXCEPT ![fd] = bits] ELSE ep

EpollDel(ep, fd) == [f \in DOMAIN ep \ {fd} |-> ep[f]]

\* ------------------------------------------------------------------------
\* Packet backend (dmtr::lwip_queue, src/unnamed/part_000): constants
\* ------------------------------------------------------------------------
\* sizeof(struct sockaddr_in).
SockaddrSize == 16

\* ETHER_TYPE_IPv4 and IPPROTO_UDP, as the packet headers carry them.
ETHER_TYPE_IPv4 == 2048

IPPROTO_UDP == 17

\* Error codes the packet backend returns, by name.
EPERM == "EPERM"

EINVAL == "EINVAL"

\* The hosts on the link, each with one NIC, and the queues of the model:
\* queue 1 lives on host 1 and sends, queues 2 and 3 live on host 2, where
\* queue 2 receives and queue 3 is set up beside it.
Hosts == {1, 2}

PQueues == {1, 2, 3}

HostOf(q) == IF q = 1 THEN 1 ELSE 2

\* ip_config: the table from MAC address to IPv4 address (host byte order).
ip_config ==
    << [mac |-> "00:0d:3a:70:25:75", ip |-> 10 * Pow256(3) + 5],
       [mac |-> "00:0d:3a:5e:4f:6e", ip |-> 10 * Pow256(3) + 7] >>

ether_broadcast == "ff:ff:ff:ff:ff:ff"

\* ip_to_mac(ip): the MAC of the first entry with this address, else the
\* broadcast address.
ip_to_mac(ip) ==
    IF \E i \in 1..Len(ip_config) : ip_config[i].ip = ip
    THEN ip_config[CHOOSE i \in 1..Len(ip_config) :
                      /\ ip_config[i].ip = ip
                      /\ \A j \in 1..(i - 1) : ip_config[j].ip # ip].mac
    ELSE ether_broadcast

\* mac_to_ip(mac): the address of the first entry with this MAC, else 0.
mac_to_ip(mac) ==
    IF \E i \in 1..Len(ip_config) : ip_config[i].mac = mac
    THEN ip_config[CHOOSE i \in 1..Len(ip_config) :
                      /\ ip_config[i].mac = mac
                      /\ \A j \in 1..(i - 1) : ip_config[j].mac # mac].ip
    ELSE 0

\* rte_eth_macaddr_get on the NIC of host h.
NicMac(h) == ip_config[h].mac

\* htons, htonl and ntohs on the little-endian hosts the backend runs on:
\* the bytes of the value in reverse order.
htons(v) == (v % 256) * 256 + ((v \div 256) % 256)

htonl(v) ==
    (v % 256) * Pow256(3) + ((v \div 256) % 256) * Pow256(2)
        + ((v \div Pow256(2)) % 256) * 256 + ((v \div Pow256(3)) % 256)

ntohs(v) == htons(v)

\* A uint32_t cell of the payload, in host order.
U32Bytes(v) == [i \in 1..4 |-> (v \div Pow256(i - 1)) % 256]

U32At(b, off) == U64Low(b, off, 4)

\* boost::optional<struct sockaddr_in>: none, or an address and a port.
NoAddr == [set |-> FALSE, addr |-> 0, port |-> 0]

SomeAddr(sa) == [set |-> TRUE, addr |-> sa.addr, port |-> sa.port]

\* ------------------------------------------------------------------------
\* Packet backend: bounds and inputs
\* ------------------------------------------------------------------------
\* Number of push/pop submissions on the packet queues.
MaxPktTasks == 2

\* Number of bind/connect calls on the packet queues, packets from outside
\* counted in.
MaxPktCtl == 2

\* Number of packets that arrive from outside the model's queues.
MaxInject == 1

\* UDP ports in use: queue 3 uses the second, the other queues the first.
Ports == {9000, 9001}

PortOf(q) == IF q = 3 THEN 9001 ELSE 9000

\* INADDR_ANY.
INADDR_ANY == 0

\* The address of the NIC of host h as a sockaddr_in carries it: s_addr in
\* network byte order.
NetAddr(h) == htonl(ip_config[h].ip)

\* Addresses a caller on host h sends to: the other host, any port.
DestAddrs(h) == {[addr |-> NetAddr(3 - h), port |-> p] : p \in Ports}

\* The calls of bind on queue q: with the address of the NIC, with
\* INADDR_ANY, with port 0, and with a size that is not that of a
\* sockaddr_in.
BindCalls(q) ==
    {[saddr |-> [addr |-> NetAddr(HostOf(q)), port |-> PortOf(q)],
      size |-> SockaddrSize],
     [saddr |-> [addr |-> INADDR_ANY, port |-> PortOf(q)],
      size |-> SockaddrSize],
     [saddr |-> [addr |-> NetAddr(HostOf(q)), port |-> 0],
      size |-> SockaddrSize],
     [saddr |-> [addr |-> NetAddr(HostOf(q)), port |-> PortOf(q)],
      size |-> SockaddrSize - 8]}

\* Scatter-gather arrays pushed on the packet queues.
PktSgas == { << <<66>>, <<67, 68>> >> }

\* A packet that reaches host h from a station outside the model: a
\* well-formed datagram of one 1-byte segment with the given destination
\* MAC, ethertype, protocol, destination address and destination port.
Crafted(dmac, etype, proto, daddr, dport) ==
    [d_addr |-> dmac, s_addr |-> "02:00:00:00:00:01",
     ether_type |-> htons(etype),
     src_addr |-> htonl(10 * Pow256(3) + 9), dst_addr |-> daddr,
     next_proto_id |-> proto,
     src_port |-> htons(7000), dst_port |-> htons(dport),
     payload |-> U32Bytes(1) \o U32Bytes(1) \o <<72>>,
     g_q |-> 0, g_segs |-> << <<72>> >>,
     g_src |-> [addr |-> htonl(10 * Pow256(3) + 9), port |-> 7000]]

Foreign(h) ==
    {Crafted(NicMac(h), ETHER_TYPE_IPv4, IPPROTO_UDP, NetAddr(h), p) :
        p \in Ports}
    \cup {Crafted(ether_broadcast, ETHER_TYPE_IPv4, IPPROTO_UDP, NetAddr(h),
                  9000),
          Crafted(NicMac(h), ETHER_TYPE_IPv4 + 6, IPPROTO_UDP, NetAddr(h),
                  9000),
          Crafted(NicMac(h), ETHER_TYPE_IPv4, IPPROTO_UDP - 11, NetAddr(h),
                  9000),
          Crafted(NicMac(h), ETHER_TYPE_IPv4, IPPROTO_UDP,
                  htonl(10 * Pow256(3) + 8), 9000)}

\* ------------------------------------------------------------------------
\* Packet backend: frame codec
\* ------------------------------------------------------------------------
RECURSIVE SegCells(_)
\* The payload after the segment count: for every segment a uint32_t length
\* and the body.
SegCells(segs) ==
    IF segs = <<>> THEN <<>>
    ELSE U32Bytes(Len(Head(segs))) \o Head(segs) \o SegCells(Tail(segs))

RECURSIVE ReadSegs(_, _, _)
\* The loop of complete_recv over n segment records of payload b from
\* offset off.
ReadSegs(b, off, n) ==
    IF n = 0 THEN <<>>
    ELSE << SubSeq(b, off + 5, off + 4 + U32At(b, off)) >>
            \o ReadSegs(b, off + 4 + U32At(b, off), n - 1)

\* A task of the queue (new_task): opcode, done, error and the sgarray with
\* its address buffer.
NewTask(opcode, segs, addr, addrlen) ==
    [opcode |-> opcode, done |-> FALSE, error |-> 0,
     sga |-> [segs |-> segs, addr |-> addr, addrlen |-> addrlen]]

\* The sender's source address as a sockaddr_in of this library (s_addr as
\* on the wire, sin_port in host order): the bound address, where a value
\* that is the address-table entry of the NIC counts as that address, or
\* else the MAC-derived address with the port the datagram carries.
SourceSockaddr(bound, mac, saddr) ==
    IF bound.set
    THEN [addr |-> IF bound.addr = mac_to_ip(mac) THEN htonl(bound.addr)
                   ELSE bound.addr,
          port |-> bound.port]
    ELSE [addr |-> htonl(mac_to_ip(mac)), port |-> saddr.port]

\* The datagram complete_send builds for task t of a queue on host h with
\* bound address bound, towards saddr.
BuildPacket(q, h, bound, saddr, t) ==
    [d_addr |-> ip_to_mac(htonl(saddr.addr)),
     s_addr |-> NicMac(h),
     ether_type |-> htons(ETHER_TYPE_IPv4),
     src_addr |-> IF bound.set THEN htonl(bound.addr)
                  ELSE htonl(mac_to_ip(NicMac(h))),
     dst_addr |-> saddr.addr,
     next_proto_id |-> IPPROTO_UDP,
     src_port |-> IF bound.set THEN htons(bound.port) ELSE htons(saddr.port),
     dst_port |-> htons(saddr.port),
     payload |-> U32Bytes(Len(t.sga.segs)) \o SegCells(t.sga.segs),
     g_q |-> q, g_segs |-> t.sga.segs,
     g_src |-> SourceSockaddr(bound, NicMac(h), saddr)]

\* A port test that lets every datagram pass.
PortAny(bound, pkt) == TRUE

\* udp_dst_port != bound_addr.sin_port, negated.
PortOk(bound, pkt) == ntohs(pkt.dst_port) = bound.port

\* The validation of complete_recv: the datagram passes every test that
\* returns early.
Passes(h, bound, pkt) ==
    /\ NicMac(h) = pkt.d_addr
    /\ ETHER_TYPE_IPv4 = ntohs(pkt.ether_type)
    /\ bound.set => pkt.dst_addr = bound.addr
    /\ IPPROTO_UDP = pkt.next_proto_id
    /\ bound.set => PortOk(bound, pkt)

\* What complete_recv leaves in the task for a datagram that passed.
Received(t, pkt) ==
    [t EXCEPT
       !.sga = [segs |-> ReadSegs(pkt.payload, 4, U32At(pkt.payload, 0)),
                addr |-> IF t.sga.addrlen = SockaddrSize
                         THEN [addr |-> pkt.src_addr,
                               port |-> ntohs(pkt.src_port)]
                         ELSE t.sga.addr,
                addrlen |-> t.sga.addrlen],
       !.done = TRUE,
       !.error = 0]

\* dmtr::lwip_queue::complete_recv(t, pkt) on a queue of host h.  mbuf tells
\* what became of the packet buffer.
complete_recv(h, bound, t, pkt) ==
    IF Passes(h, bound, pkt)
    THEN [ret |-> "0", task |-> Received(t, pkt), mbuf |-> "freed"]
    ELSE [ret |-> "0", task |-> t, mbuf |-> "held"]

\* A send that takes the destination from the sga whatever the default
\* peer is.
SendToSga(q, t, accepted) ==
    IF ~my_default_peer[q].set /\ t.sga.addrlen # SockaddrSize
    THEN [ret |-> EINVAL, task |-> t, sent |-> <<>>, mbuf |-> "none"]
    ELSE IF ~accepted
    THEN [ret |-> EAGAIN, task |-> t, sent |-> <<>>, mbuf |-> "held"]
    ELSE [ret |-> "0",
          task |-> [t EXCEPT !.done = TRUE, !.error = 0],
          sent |-> << BuildPacket(q, HostOf(q), my_bound_addr[q],
                                  t.sga.addr,
                                  t) >>,
          mbuf |-> "sent"]

\* dmtr::lwip_queue::complete_send(t) on queue q; accepted tells that the
\* transmit burst took the packet.
complete_send(q, t, accepted) ==
    IF ~my_default_peer[q].set /\ t.sga.addrlen # SockaddrSize
    THEN [ret |-> EINVAL, task |-> t, sent |-> <<>>, mbuf |-> "none"]
    ELSE IF ~accepted
    THEN [ret |-> EAGAIN, task |-> t, sent |-> <<>>, mbuf |-> "held"]
    ELSE [ret |-> "0",
          task |-> [t EXCEPT !.done = TRUE, !.error = 0],
          sent |-> << BuildPacket(q, HostOf(q), my_bound_addr[q],
                                  IF my_default_peer[q].set
                                  THEN my_default_peer[q] ELSE t.sga.addr,
                                  t) >>,
          mbuf |-> "sent"]

\* dmtr::lwip_queue::service_recv_queue on queue q: an empty receive queue
\* is refilled with one burst from the NIC (our_max_queue_depth exceeds what
\* the ring of the model holds), then the front packet is taken.
service_recv_queue(q) ==
    IF my_recv_queue[q] = <<>> /\ nic[HostOf(q)] = <<>>
    THEN [ret |-> EAGAIN, pkt |-> <<>>, queue |-> <<>>, burst |-> <<>>]
    ELSE IF my_recv_queue[q] = <<>>
    THEN [ret |-> "0", pkt |-> << Head(nic[HostOf(q)]) >>,
          queue |-> Tail(nic[HostOf(q)]), burst |-> nic[HostOf(q)]]
    ELSE [ret |-> "0", pkt |-> << Head(my_recv_queue[q]) >>,
          queue |-> Tail(my_recv_queue[q]), burst |-> <<>>]

\* task::to_qresult: the return value of poll for the task.
to_qresult(t) == IF t.done THEN "0" ELSE EAGAIN

\* The record of a poll: return value, the task afterwards, the receive
\* queue afterwards, what the call took from the NIC, the packet it took
\* from the receive queue, what it transmitted and what became of the
\* packet buffer it held.
PollOut(ret, t, queue, burst, pkt, sent, mbuf) ==
    [ret |-> ret, task |-> t, queue |-> queue, burst |-> burst, pkt |-> pkt,
     sent |-> sent, mbuf |-> mbuf]

\* The receive half of poll, after service_recv_queue gave s.
PollRecv(q, t, s) ==
    IF s.ret = EAGAIN
    THEN PollOut(EAGAIN, t, my_recv_queue[q], <<>>, <<>>, <<>>, "none")
    ELSE PollOut(to_qresult(complete_recv(HostOf(q), my_bound_addr[q], t,
                                          s.pkt[1]).task),
                 complete_recv(HostOf(q), my_bound_addr[q], t, s.pkt[1]).task,
                 s.queue, s.burst, s.pkt, <<>>,
                 complete_recv(HostOf(q), my_bound_addr[q], t, s.pkt[1]).mbuf)

\* The send half of poll, after complete_send gave c.
PollSend(q, t, c) ==
    PollOut(IF c.ret = "0" THEN to_qresult(c.task) ELSE c.ret, c.task,
            my_recv_queue[q], <<>>, <<>>, c.sent, c.mbuf)

\* dmtr::lwip_queue::poll(qr_out, qt) on queue q.
poll(q, qt, accepted) ==
    IF tasks[q][qt].done
    THEN PollOut(to_qresult(tasks[q][qt]), tasks[q][qt], my_recv_queue[q],
                 <<>>, <<>>, <<>>, "none")
    ELSE IF tasks[q][qt].opcode = "POP"
    THEN PollRecv(q, tasks[q][qt], service_recv_queue(q))
    ELSE PollSend(q, tasks[q][qt], complete_send(q, tasks[q][qt], accepted))

\* A bind that does not look whether the queue is bound already.
BindOver(q, saddr, size) ==
    IF size # SockaddrSize
    THEN [ret |-> EINVAL, bound |-> my_bound_addr[q]]
    ELSE IF saddr.port = 0
    THEN [ret |-> EINVAL, bound |-> my_bound_addr[q]]
    ELSE [ret |-> "0",
          bound |-> SomeAddr([addr |-> IF saddr.addr = INADDR_ANY
                                       THEN mac_to_ip(NicMac(HostOf(q)))
                                       ELSE saddr.addr,
                              port |-> saddr.port])]

\* dmtr::lwip_queue::bind(saddr, size) on queue q: the return value and the
\* bound address afterwards.
bind(q, saddr, size) ==
    IF my_bound_addr[q].set THEN [ret |-> EINVAL, bound |-> my_bound_addr[q]]
    ELSE IF size # SockaddrSize
    THEN [ret |-> EINVAL, bound |-> my_bound_addr[q]]
    ELSE IF saddr.port = 0
    THEN [ret |-> EINVAL, bound |-> my_bound_addr[q]]
    ELSE [ret |-> "0",
          bound |-> SomeAddr([addr |-> IF saddr.addr = INADDR_ANY
                                       THEN mac_to_ip(NicMac(HostOf(q)))
                                       ELSE saddr.addr,
                              port |-> saddr.port])]

\* dmtr::lwip_queue::connect(saddr, size) on queue q.
connect(q, saddr, size) ==
    IF size # SockaddrSize
    THEN [ret |-> EINVAL, peer |-> my_default_peer[q]]
    ELSE IF my_bound_addr[q].set \/ my_default_peer[q].set
    THEN [ret |-> EPERM, peer |-> my_default_peer[q]]
    ELSE [ret |-> "0", peer |-> SomeAddr(saddr)]

\* ------------------------------------------------------------------------
\* Packet backend: state after construction, and the calls
\* ------------------------------------------------------------------------
\* The record of a call on a packet queue in plast: the call, its queue and
\* token, the bound address of the queue before the call, whether the call
\* is a bind that follows a close of the same queue that was bound, and the
\* outcome.
PktOp(name, q, qt, o) ==
    [op |-> name, q |-> q, qt |-> qt,
     before |-> IF q \in PQueues THEN my_bound_addr[q] ELSE NoAddr,
     reopened |-> /\ name = "bind"
                  /\ plast.op = "close"
                  /\ plast.q = q
                  /\ plast.before.set] @@ o

NoPoll ==
    PollOut("0", NewTask("NONE", <<>>, [addr |-> 0, port |-> 0], 0), <<>>,
            <<>>, <<>>, <<>>, "none")

PktStart ==
    /\ my_bound_addr = [q \in PQueues |-> NoAddr]
    /\ my_default_peer = [q \in PQueues |-> NoAddr]
    /\ my_recv_queue = [q \in PQueues |-> <<>>]
    /\ tasks = [q \in PQueues |-> << >>]
    /\ nic = [h \in Hosts |-> <<>>]
    /\ plast = PktOp("none", 0, NoToken, NoPoll)
    /\ ptok = 0
    /\ pctl = 0
    /\ pinj = 0

\* The caller sets its queues up before it submits work, one queue after
\* the other; then it submits its pushes, then its pops, and then it polls.
\* A submission only creates a task, so its place among the polls changes
\* nothing.  Packets from outside arrive before the submissions.
Setup(q) ==
    /\ pctl + pinj < MaxPktCtl
    /\ ptok = 0
    /\ pinj = 0
    /\ plast.q <= q

\* dmtr::lwip_queue::bind on queue q.
PktBind(q, saddr, size) ==
    /\ Setup(q)
    /\ my_bound_addr' = [my_bound_addr EXCEPT ![q] = bind(q, saddr, size).bound]
    /\ plast' = [saddr |-> saddr, size |-> size]
                  @@ PktOp("bind", q, NoToken,
                           [NoPoll EXCEPT !.ret = bind(q, saddr, size).ret])
    /\ pctl' = pctl + 1
    /\ UNCHANGED << my_default_peer, my_recv_queue, tasks, nic, ptok, pinj >>
    /\ UNCHANGED << svars, procvars >>

\* dmtr::lwip_queue::connect on queue q.
PktConnect(q, saddr, size) ==
    /\ Setup(q)
    /\ my_default_peer' =
          [my_default_peer EXCEPT ![q] = connect(q, saddr, size).peer]
    /\ plast' = [saddr |-> saddr, size |-> size]
                  @@ PktOp("connect", q, NoToken,
                           [NoPoll EXCEPT !.ret = connect(q, saddr, size).ret])
    /\ pctl' = pctl + 1
    /\ UNCHANGED << my_bound_addr, my_recv_queue, tasks, nic, ptok, pinj >>
    /\ UNCHANGED << svars, procvars >>

\* dmtr::lwip_queue::close on queue q.
PktClose(q) ==
    /\ ptok = 0
    /\ pinj = 0
    /\ plast.q <= q
    /\ my_default_peer' = [my_default_peer EXCEPT ![q] = NoAddr]
    /\ my_bound_addr' = [my_bound_addr EXCEPT ![q] = NoAddr]
    /\ plast' = PktOp("close", q, NoToken, NoPoll)
    /\ UNCHANGED << my_recv_queue, tasks, nic, ptok, pctl, pinj >>
    /\ UNCHANGED << svars, procvars >>

\* new_task(t, qt, opcode) on queue q, and what push then stores.
AddTask(q, qt, t) ==
    [tasks EXCEPT ![q] =
        [k \in DOMAIN tasks[q] \cup {qt} |-> IF k = qt THEN t ELSE tasks[q][k]]]

\* dmtr::lwip_queue::push(qt, sga) on queue q with a fresh token; the
\* sgarray carries the destination saddr.
PktPush(q, segs, saddr) ==
    /\ ptok < MaxPktTasks
    /\ plast.op \notin {"pop", "poll"}
    /\ tasks' = AddTask(q, Mint(ptok, TRUE),
                        NewTask("PUSH", segs, saddr, SockaddrSize))
    /\ plast' = PktOp("push", q, Mint(ptok, TRUE), NoPoll)
    /\ ptok' = ptok + 1
    /\ UNCHANGED << my_bound_addr, my_default_peer, my_recv_queue, nic, pctl,
                    pinj >>
    /\ UNCHANGED << svars, procvars >>

\* dmtr::lwip_queue::pop(qt) on queue q with a fresh token; the task's
\* sgarray has room for the peer address.
PktPop(q) ==
    /\ ptok < MaxPktTasks
    /\ plast.op # "poll"
    /\ tasks' = AddTask(q, Mint(ptok, FALSE),
                        NewTask("POP", <<>>, [addr |-> 0, port |-> 0],
                                SockaddrSize))
    /\ plast' = PktOp("pop", q, Mint(ptok, FALSE), NoPoll)
    /\ ptok' = ptok + 1
    /\ UNCHANGED << my_bound_addr, my_default_peer, my_recv_queue, nic, pctl,
                    pinj >>
    /\ UNCHANGED << svars, procvars >>

\* dmtr::lwip_queue::poll(qr_out, qt) on queue q for a token of the queue.
\* A packet the transmit burst took arrives at the NIC of the other host.
PktPoll(q, qt, accepted) ==
    /\ qt \in DOMAIN tasks[q]
    /\ \E o \in {poll(q, qt, accepted)} :
         /\ tasks' = [tasks EXCEPT ![q][qt] = o.task]
         /\ my_recv_queue' = [my_recv_queue EXCEPT ![q] = o.queue]
         /\ nic' = [h \in Hosts |->
                      IF h = HostOf(q)
                      THEN (IF o.burst = <<>> THEN nic[h] ELSE <<>>)
                      ELSE nic[h] \o o.sent]
         /\ plast' = PktOp("poll", q, qt, o)
    /\ UNCHANGED << my_bound_addr, my_default_peer, ptok, pctl, pinj >>
    /\ UNCHANGED << svars, procvars >>

\* A packet from outside the model's queues arrives at the NIC of host h.
PktInject(h, pkt) ==
    /\ pinj < MaxInject
    /\ pctl + pinj < MaxPktCtl
    /\ ptok = 0
    /\ nic' = [nic EXCEPT ![h] = Append(@, pkt)]
    /\ pinj' = pinj + 1
    /\ UNCHANGED << my_bound_addr, my_default_peer, my_recv_queue, tasks,
                    plast, ptok, pctl >>
    /\ UNCHANGED << svars, procvars >>

PktNext ==
    \/ \E q \in PQueues :
          \E c \in BindCalls(q) : PktBind(q, c.saddr, c.size)
    \/ \E saddr \in DestAddrs(1) : PktConnect(1, saddr, SockaddrSize)
    \/ \E q \in PQueues : PktClose(q)
    \/ \E segs \in PktSgas, saddr \in DestAddrs(1) : PktPush(1, segs, saddr)
    \/ PktPop(2)
    \/ \E q \in PQueues, qt \in 0..(2 * MaxPktTasks - 1), accepted \in BOOLEAN :
          PktPoll(q, qt, accepted)
    \/ \E pkt \in Foreign(2) : PktInject(2, pkt)

\* ------------------------------------------------------------------------
\* Initial state: the queue object right after construction, either on a
\* handle made by socket() or on a handle returned by accept() of a
\* listening queue (setfd), which accept registered for read readiness.
\* ------------------------------------------------------------------------
\* ------------------------------------------------------------------------
\* Process-wide initialisation
\* ------------------------------------------------------------------------
\* Number of queues created on each backend.
MaxCreations == 3

ENOENT == "ENOENT"

\* What the transport can do to one run of init_dpdk: every call succeeds,
\* rte_eal_init fails, no port is available, the pool cannot be created, or
\* the setup of the port fails.
DpdkOutcomes == {"ok", "eal_fail", "no_ports", "pool_fail", "port_fail"}

\* What the transport can do to one run of mtcp_env_init: every call
\* succeeds, or mtcp_epoll_create fails.
MtcpOutcomes == {"ok", "epoll_fail"}

\* The statics of the packet backend before the first new_object; eal, pools
\* and ports count the runs of rte_eal_init, rte_pktmbuf_pool_create and
\* init_dpdk_port that succeeded, made the queues constructed.
DpdkStart ==
    [our_dpdk_init_flag |-> FALSE, our_dpdk_port_id |-> -1,
     our_mbuf_pool |-> 0, eal |-> 0, pools |-> 0, ports |-> 0, made |-> 0,
     ret |-> "0"]

\* The statics of the stream backend before the first socket(); inits, ctxs
\* and eps count the runs of mtcp_init, mtcp_create_context and
\* mtcp_epoll_create that succeeded, made the calls of socket().
MtcpStart ==
    [mtcp_env_initialized |-> FALSE, mctx |-> "none", mtcp_ep |-> -1,
     inits |-> 0, ctxs |-> 0, eps |-> 0, made |-> 0, ret |-> 0]

\* dmtr::lwip_queue::init_dpdk on the statics d.
init_dpdk(d, outcome) ==
    IF d.our_dpdk_init_flag THEN [d EXCEPT !.ret = "0"]
    ELSE IF outcome = "eal_fail" THEN [d EXCEPT !.ret = "error"]
    ELSE IF outcome = "no_ports"
    THEN [d EXCEPT !.eal = @ + 1, !.ret = ENOENT]
    ELSE IF outcome = "pool_fail"
    THEN [d EXCEPT !.eal = @ + 1, !.ret = "error"]
    ELSE IF outcome = "port_fail"
    THEN [d EXCEPT !.eal = @ + 1, !.pools = @ + 1, !.ret = "error"]
    ELSE [d EXCEPT !.eal = @ + 1, !.pools = @ + 1, !.ports = @ + 1,
                   !.our_dpdk_init_flag = TRUE,
                   !.our_dpdk_port_id = 0,
                   !.our_mbuf_pool = d.pools + 1,
                   !.ret = "0"]

\* dmtr::lwip_queue::new_object on the statics d: the queue is constructed
\* when init_dpdk returned 0.
new_object(d, outcome) ==
    LET i == init_dpdk(d, outcome)
    IN IF i.ret = "0" THEN [i EXCEPT !.made = @ + 1] ELSE i

\* mtcp_env_init on the statics m.
mtcp_env_init(m, outcome) ==
    IF outcome = "epoll_fail"
    THEN [m EXCEPT !.inits = @ + 1, !.ctxs = @ + 1, !.mctx = "destroyed",
                   !.mtcp_ep = -1, !.ret = -1]
    ELSE [m EXCEPT !.inits = @ + 1, !.ctxs = @ + 1, !.eps = @ + 1,
                   !.mctx = "live", !.mtcp_ep = m.eps + 1,
                   !.mtcp_env_initialized = TRUE, !.ret = 0]

\* The initialisation part of MTCPQueue::socket on the statics m; what
\* mtcp_env_init returns is not looked at.
socket(m, outcome) ==
    [(IF m.mtcp_env_initialized THEN m ELSE mtcp_env_init(m, outcome))
        EXCEPT !.made = @ + 1]

\* The process after the first queue of each backend was created without a
\* failure.
Booted ==
    /\ dpdk = new_object(DpdkStart, "ok")
    /\ menv = socket(MtcpStart, "ok")

NoOp ==
    [op |-> "none", qt |-> NoToken, sga |-> <<>>, ret |-> 0, out |-> <<>>,
     attempted |-> NoToken, req |-> PendingRequest(<<>>), nreads |-> 0,
     wrote |-> <<>>]

Init ==
    /\ pending = << >>
    /\ workQ = <<>>
    /\ accepts = <<>>
    /\ listening = FALSE
    /\ mtcp_evts = {}
    /\ world \in Worlds
    /\ IF world.fresh
       THEN conn = "fresh" /\ nonblock = FALSE /\ epoll = << >>
       ELSE conn = "open" /\ nonblock = TRUE /\ epoll = (QFd :> {EPOLLIN})
    /\ rxLog = <<>>
    /\ rxPos = 0
    /\ txWin = world.win
    /\ backlog = <<>>
    /\ waiting = NoToken
    /\ spin = 0
    /\ aborted = "none"
    /\ lastOp = NoOp
    /\ nsub = 0
    /\ npeek = 0
    /\ npeer = 0
    /\ nconn = 0
    /\ PktStart
    /\ Booted

\* The caller can make a call: the process runs and is not inside wait().
Callable == aborted = "none" /\ waiting = NoToken

\* A loop test that lets every request pass.
LoopExitAlways(req) == TRUE

\* The test of wait's loop, while (!it->second.isDone): the loop is left
\* when the request is done.
LoopExit(req) == req.isDone

\* wait() is in its loop.
InWaitLoop ==
    /\ aborted = "none"
    /\ waiting # NoToken
    /\ ~LoopExit(pending[waiting])

\* The record of a call in lastOp.
Op(name, qt, sga, ret, out, r) ==
    [op |-> name, qt |-> qt, sga |-> sga, ret |-> ret, out |-> out,
     attempted |-> r.attempted, req |-> r.req, nreads |-> r.nreads,
     wrote |-> r.wrote]

\* The effect of an attempt on the queue and the transport.
Effect(r) ==
    /\ pending' = r.pending
    /\ workQ' = r.workQ
    /\ accepts' = r.accepts
    /\ backlog' = r.backlog
    /\ rxPos' = r.pos
    /\ aborted' = "none"

\* A failed assertion ends the process: its memory and its handles are
\* gone.  What remains is the assertion and the call that hit it.
Dead(label, op) ==
    /\ aborted' = label
    /\ lastOp' = op
    /\ pending' = << >>
    /\ workQ' = <<>>
    /\ accepts' = <<>>
    /\ listening' = FALSE
    /\ mtcp_evts' = {}
    /\ conn' = "dead"
    /\ nonblock' = FALSE
    /\ epoll' = << >>
    /\ rxLog' = <<>>
    /\ rxPos' = 0
    /\ txWin' = 0
    /\ backlog' = <<>>
    /\ world' = world
    /\ waiting' = NoToken
    /\ spin' = 0
    /\ nsub' = 0
    /\ npeek' = 0
    /\ npeer' = 0
    /\ nconn' = 0

\* A call that touches neither the requests nor the stream.
NoAttempt ==
    [attempted |-> NoToken, req |-> PendingRequest(<<>>), nreads |-> 0,
     wrote |-> <<>>]

\* ------------------------------------------------------------------------
\* Data plane
\* ------------------------------------------------------------------------
\* What no call of the queue changes: the peer's bytes, the send window, the
\* delivery granularity and the peer's counters.
netvars == << rxLog, txWin, world, npeer, nconn >>

\* The counters of the caller's calls.
calls == << nsub, npeek >>

\* The caller's choice of a token: the next one minted, or by mistake one
\* that is still in the pending map.
Minted(qt, push) ==
    /\ IS_PUSH(qt) = push
    /\ qt = Mint(nsub, push) \/ qt \in DOMAIN pending

\* MTCPQueue::push(qt, sga).
Push(qt, sga, short) ==
    /\ UNCHANGED << pktvars, procvars >>
    /\ Callable
    /\ nsub < MaxSubmits
    /\ nsub + npeer < MaxLoad
    /\ Minted(qt, TRUE)
    /\ \E e \in {Enqueue(qt, sga, short)} :
       LET lo == Op("push", qt, sga, e.ret, sga, e)
       IN IF e.abort # "none" THEN Dead(e.abort, lo)
          ELSE /\ Effect(e)
               /\ lastOp' = lo
               /\ mtcp_evts' = mtcp_evts \cup {EPOLLOUT}
               /\ epoll' = EpollMod(epoll, QFd, mtcp_evts \cup {EPOLLOUT})
               /\ nsub' = nsub + 1
               /\ UNCHANGED << listening, conn, nonblock, waiting, spin,
                               npeek, netvars >>

\* The copy at the end of MTCPQueue::pop: what the caller's sgarray holds
\* when pop returns, and the assertion on the way.
PopCopy(ret, p, qt, sga) ==
    IF ret = 0 THEN [out |-> sga, abort |-> "none"]
    ELSE IF qt \notin DOMAIN p
    THEN [out |-> sga, abort |-> "assert it != pending.end()"]
    ELSE [out |-> p[qt].sga, abort |-> "none"]

\* MTCPQueue::pop(qt, sga); the caller passes an empty sgarray.
Pop(qt) ==
    /\ UNCHANGED << pktvars, procvars >>
    /\ Callable
    /\ nsub < MaxSubmits
    /\ nsub + npeer < MaxLoad
    /\ Minted(qt, FALSE)
    /\ \E e \in {Enqueue(qt, <<>>, FALSE)} :
       LET c == PopCopy(e.ret, e.pending, qt, <<>>)
           lo == Op("pop", qt, <<>>, e.ret, c.out, e)
       IN IF e.abort # "none" THEN Dead(e.abort, lo)
          ELSE IF c.abort # "none" THEN Dead(c.abort, lo)
          ELSE /\ Effect(e)
               /\ lastOp' = lo
               /\ mtcp_evts' = mtcp_evts \cup {EPOLLIN}
               /\ epoll' = EpollMod(epoll, QFd, mtcp_evts \cup {EPOLLIN})
               /\ nsub' = nsub + 1
               /\ UNCHANGED << listening, conn, nonblock, waiting, spin,
                               npeek, netvars >>

\* MTCPQueue::peek(sga).
Peek ==
    /\ UNCHANGED << pktvars, procvars >>
    /\ Callable
    /\ world.peeks
    /\ npeek < MaxPeeks
    /\ \E r \in {ProcessIncoming(PendingRequest(<<>>))} :
       LET e == r @@ [pending |-> pending, workQ |-> workQ,
                      attempted |-> NoToken]
           lo == Op("peek", NoToken, <<>>,
                    IF r.req.isDone THEN r.req.res ELSE 0, r.req.sga, e)
       IN IF r.abort # "none" THEN Dead(r.abort, lo)
          ELSE /\ Effect(e)
               /\ lastOp' = lo
               /\ npeek' = npeek + 1
               /\ UNCHANGED << listening, mtcp_evts, conn, nonblock, epoll,
                               waiting, spin, nsub, netvars >>

\* What MTCPQueue::poll(qt, sga) returns for a token of the pending map p:
\* ret, and in sga the caller's sgarray, which is empty before the call.
PollResult(p, qt) ==
    IF p[qt].isDone
    THEN [ret |-> p[qt].res, sga |-> p[qt].sga]
    ELSE [ret |-> 0, sga |-> <<>>]

\* A poll that drives the work queue by one step before it looks.
PollDriving(qt) == ProcessQ(FALSE)

\* What MTCPQueue::poll does to the queue before it reads the record of qt:
\* nothing, it runs no progress step.
PollWork(qt) == Idle(workQ)

\* MTCPQueue::poll(qt, sga).
Poll(qt) ==
    /\ UNCHANGED << pktvars, procvars >>
    /\ Callable
    /\ IF qt \notin DOMAIN pending
       THEN Dead("assert it != pending.end()",
                 Op("poll", qt, <<>>, 0, <<>>, NoAttempt))
       ELSE \E r \in {PollWork(qt)} :
            IF r.abort # "none"
            THEN Dead(r.abort, Op("poll", qt, <<>>, 0, <<>>, r))
            ELSE /\ Effect(r)
                 /\ lastOp' = Op("poll", qt, <<>>,
                                 PollResult(r.pending, qt).ret,
                                 PollResult(r.pending, qt).sga, r)
                 /\ UNCHANGED << listening, mtcp_evts, conn, nonblock, epoll,
                                 waiting, spin, calls, netvars >>

\* MTCPQueue::wait(qt, sga), entry: the lookup and its assertion.
Wait(qt) ==
    /\ UNCHANGED << pktvars, procvars >>
    /\ Callable
    /\ IF qt \notin DOMAIN pending
       THEN Dead("assert it != pending.end()",
                 Op("wait", qt, <<>>, 0, <<>>, NoAttempt))
       ELSE /\ waiting' = qt
            /\ spin' = 0
            /\ lastOp' = Op("wait", qt, <<>>, 0, <<>>, NoAttempt)
            /\ UNCHANGED << qvars, conn, nonblock, epoll, rxPos, backlog,
                            aborted, calls, netvars >>

\* MTCPQueue::wait, one iteration of while (!it->second.isDone) ProcessQ(1).
WaitStep(short) ==
    /\ UNCHANGED << pktvars, procvars >>
    /\ InWaitLoop
    /\ \E r \in {ProcessQ(short)} :
       LET lo == Op("progress", waiting, <<>>, 0, <<>>, r)
       IN IF r.abort # "none" THEN Dead(r.abort, lo)
          ELSE /\ Effect(r)
               /\ lastOp' = lo
               /\ UNCHANGED << listening, mtcp_evts, conn, nonblock, epoll,
                               waiting, calls, netvars >>
               /\ spin' = 1 - spin

\* MTCPQueue::wait, leaving the loop: ret = it->second.res.
WaitReturn ==
    /\ UNCHANGED << pktvars, procvars >>
    /\ aborted = "none"
    /\ waiting # NoToken
    /\ LoopExit(pending[waiting])
    /\ waiting' = NoToken
    /\ spin' = 0
    /\ lastOp' = Op("waitret", waiting, <<>>, pending[waiting].res, <<>>,
                    NoAttempt)
    /\ UNCHANGED << qvars, conn, nonblock, epoll, rxPos, backlog, aborted,
                    calls, netvars >>

\* ------------------------------------------------------------------------
\* Control plane
\* ------------------------------------------------------------------------
\* MTCPQueue::connect(saddr, size); ok is whether the peer accepts.  The
\* transport connects a handle only once and only if it does not listen.
Connect(ok) ==
    /\ UNCHANGED << pktvars, procvars >>
    /\ Callable
    /\ nsub = 0
    /\ IF ok /\ conn = "fresh"
       THEN /\ conn' = "open"
            /\ nonblock' = TRUE
            /\ mtcp_evts' = mtcp_evts \cup {EPOLLOUT}
            /\ epoll' = EpollAdd(epoll, QFd, {EPOLLOUT})
            /\ lastOp' = Op("connect", NoToken, <<>>, 0, <<>>, NoAttempt)
       ELSE /\ UNCHANGED << conn, nonblock, mtcp_evts, epoll >>
            /\ lastOp' = Op("connect", NoToken, <<>>, -ErrnoValue(HardErrno), <<>>,
                            NoAttempt)
    /\ UNCHANGED << pending, workQ, accepts, listening, rxPos, backlog,
                    waiting, spin, aborted, calls, netvars >>

\* MTCPQueue::listen(backlog); ok is whether mtcp_listen succeeds on a
\* handle that can listen.
Listen(ok) ==
    /\ UNCHANGED << pktvars, procvars >>
    /\ Callable
    /\ nsub = 0
    /\ IF ok /\ conn = "fresh"
       THEN /\ listening' = TRUE
            /\ conn' = "listen"
            /\ nonblock' = TRUE
            /\ lastOp' = Op("listen", NoToken, <<>>, 0, <<>>, NoAttempt)
       ELSE /\ UNCHANGED << listening, conn, nonblock >>
            /\ lastOp' = Op("listen", NoToken, <<>>, -ErrnoValue(HardErrno), <<>>,
                            NoAttempt)
    /\ UNCHANGED << pending, workQ, accepts, mtcp_evts, epoll, rxPos,
                    backlog, waiting, spin, aborted, calls,
                    netvars >>

\* An accept that returns the head of accepts and leaves it there.
AcceptKeep ==
    /\ UNCHANGED << pktvars, procvars >>
    /\ Callable
    /\ IF ~listening
       THEN Dead("assert listening",
                 Op("accept", NoToken, <<>>, 0, <<>>, NoAttempt))
       ELSE \E r \in {ProcessIncoming(PendingRequest(<<>>))} :
            LET e == r @@ [attempted |-> NoToken]
            IN IF r.abort # "none"
               THEN Dead(r.abort, Op("accept", NoToken, <<>>, 0, <<>>, e))
               ELSE
               /\ backlog' = r.backlog
               /\ rxPos' = r.pos
               /\ IF r.accepts = <<>>
                  THEN /\ accepts' = r.accepts
                       /\ epoll' = epoll
                       /\ lastOp' = Op("accept", NoToken, <<>>, 0, <<>>, e)
                  ELSE /\ accepts' = r.accepts
                       /\ epoll' = IF Head(r.accepts).fd # -1
                                   THEN EpollAdd(epoll, Head(r.accepts).fd,
                                                 {EPOLLIN})
                                   ELSE epoll
                       /\ lastOp' = Op("accept", NoToken, <<>>,
                                       Head(r.accepts).fd,
                                       <<Head(r.accepts).addr>>, e)
               /\ UNCHANGED << pending, workQ, listening, mtcp_evts, conn,
                               nonblock, waiting, spin, aborted,
                               calls, netvars >>

\* MTCPQueue::accept(saddr, size).  ret is the new handle, out its address.
Accept ==
    /\ UNCHANGED << pktvars, procvars >>
    /\ Callable
    /\ IF ~listening
       THEN Dead("assert listening",
                 Op("accept", NoToken, <<>>, 0, <<>>, NoAttempt))
       ELSE \E r \in {ProcessIncoming(PendingRequest(<<>>))} :
            LET e == r @@ [attempted |-> NoToken]
            IN IF r.abort # "none"
               THEN Dead(r.abort, Op("accept", NoToken, <<>>, 0, <<>>, e))
               ELSE
               /\ backlog' = r.backlog
               /\ rxPos' = r.pos
               /\ IF r.accepts = <<>>
                  THEN /\ accepts' = r.accepts
                       /\ epoll' = epoll
                       /\ lastOp' = Op("accept", NoToken, <<>>, 0, <<>>, e)
                  ELSE /\ accepts' = Tail(r.accepts)
                       /\ epoll' = IF Head(r.accepts).fd # -1
                                   THEN EpollAdd(epoll, Head(r.accepts).fd,
                                                 {EPOLLIN})
                                   ELSE epoll
                       /\ lastOp' = Op("accept", NoToken, <<>>,
                                       Head(r.accepts).fd,
                                       <<Head(r.accepts).addr>>, e)
               /\ UNCHANGED << pending, workQ, listening, mtcp_evts, conn,
                               nonblock, waiting, spin, aborted,
                               calls, netvars >>

\* The transport drops what a connection that ended still buffered.
Discard ==
    /\ rxLog' = <<>>
    /\ rxPos' = 0
    /\ txWin' = 0

\* MTCPQueue::close().
Close ==
    /\ UNCHANGED << pktvars, procvars >>
    /\ Callable
    /\ conn # "closed"
    /\ mtcp_evts' = {}
    /\ epoll' = EpollDel(epoll, QFd)
    /\ conn' = "closed"
    /\ Discard
    /\ lastOp' = Op("close", NoToken, <<>>, 0, <<>>, NoAttempt)
    /\ UNCHANGED << pending, workQ, accepts, listening, nonblock,
                    backlog, waiting, spin, aborted, calls, world, npeer,
                    nconn >>

\* ------------------------------------------------------------------------
\* Environment: the peer and the network
\* ------------------------------------------------------------------------
\* A frame of which the peer wrote all but the last byte.
TruncatedFrame ==
    LET f == FrameBytes(<< <<66>>, <<67, 68>> >>)
    IN SubSeq(f, 1, Len(f) - 1)

PeerFrames ==
    {FrameBytes(s) : s \in AppSgas}
        \cup {BadMagicFrame, ZeroSegFrame, TrailingByteFrame,
              TruncatedFrame}

\* What no step of the environment changes: the queue, the caller, and what
\* the queue has read and written.
appvars ==
    << qvars, nonblock, epoll, rxPos, waiting, spin, aborted, lastOp,
       calls, world >>

\* The peer writes one frame to the connection; only a faulty peer writes
\* one that the framing protocol does not allow.
PeerSend(frame) ==
    /\ UNCHANGED << pktvars, procvars >>
    /\ aborted = "none"
    /\ conn = "open"
    /\ npeer < MaxPeerFrames
    /\ nsub + npeer < MaxLoad
    /\ frame \in {FrameBytes(s) : s \in AppSgas} \/ world.faults
    /\ rxLog' = rxLog \o frame
    /\ npeer' = npeer + 1
    /\ UNCHANGED << appvars, conn, txWin, backlog, nconn >>

\* The peer closes its side: reads return 0 once the stream is drained.
PeerClose ==
    /\ UNCHANGED << pktvars, procvars >>
    /\ aborted = "none"
    /\ world.faults
    /\ conn = "open"
    /\ conn' = "peer_closed"
    /\ UNCHANGED << appvars, rxLog, txWin, backlog, npeer, nconn >>

\* The connection breaks: reads and writes fail with ECONNRESET.
PeerReset ==
    /\ UNCHANGED << pktvars, procvars >>
    /\ aborted = "none"
    /\ world.faults
    /\ conn \in {"open", "peer_closed"}
    /\ conn' = "reset"
    /\ Discard
    /\ UNCHANGED << qvars, nonblock, epoll, waiting, spin, aborted, lastOp,
                    calls, world, backlog, npeer, nconn >>

\* The send window opens or closes.
SetWindow(w) ==
    /\ UNCHANGED << pktvars, procvars >>
    /\ aborted = "none"
    /\ world.flow
    /\ conn \in {"open", "peer_closed"}
    /\ w # txWin
    /\ txWin' = w
    /\ UNCHANGED << appvars, conn, rxLog, backlog, npeer, nconn >>

\* A peer connects to the listening handle.
PeerConnect ==
    /\ UNCHANGED << pktvars, procvars >>
    /\ aborted = "none"
    /\ conn = "listen"
    /\ nconn < MaxConns
    /\ backlog' = Append(backlog, [fd |-> ConnFd(nconn), addr |-> 100 + nconn])
    /\ nconn' = nconn + 1
    /\ UNCHANGED << appvars, conn, rxLog, txWin, npeer >>

\* ------------------------------------------------------------------------
\* Specification
\* ------------------------------------------------------------------------
PushTokens == {t \in Tokens : IS_PUSH(t)}

PopTokens == {t \in Tokens : ~IS_PUSH(t)}

Next ==
    \/ \E qt \in PushTokens, sga \in AppSgas, short \in BOOLEAN :
          Push(qt, sga, short)
    \/ \E qt \in PopTokens : Pop(qt)
    \/ Peek
    \/ \E qt \in Tokens : Poll(qt)
    \/ \E qt \in Tokens : Wait(qt)
    \/ \E short \in BOOLEAN : WaitStep(short)
    \/ WaitReturn
    \/ \E ok \in BOOLEAN : Connect(ok)
    \/ \E ok \in BOOLEAN : Listen(ok)
    \/ Accept
    \/ Close
    \/ \E f \in PeerFrames : PeerSend(f)
    \/ PeerClose
    \/ PeerReset
    \/ \E w \in Windows : SetWindow(w)
    \/ PeerConnect

Spec == Init /\ [][Next]_vars

\* The wait loop keeps running: a thread inside wait() executes its next
\* iteration, and returns once the loop condition is false.  The second
\* conjunct is weak fairness of WaitStep written out: InWaitLoop is the
\* condition under which WaitStep is enabled, and every WaitStep changes
\* vars.
FairSpec ==
    /\ Spec
    /\ WF_vars(WaitReturn)
    /\ \/ []<>~InWaitLoop
       \/ []<><<\E short \in BOOLEAN : WaitStep(short)>>_vars

\* The packet backend runs beside a stream queue that nobody calls.
PktInit == Init /\ world.faults

PktSpec == PktInit /\ [][PktNext]_vars

\* ------------------------------------------------------------------------
\* The creation of queues, from the start of the process
\* ------------------------------------------------------------------------
\* The queues before any call, in a process that has initialised nothing.
BootInit ==
    /\ pending = << >>
    /\ workQ = <<>>
    /\ accepts = <<>>
    /\ listening = FALSE
    /\ mtcp_evts = {}
    /\ world \in {w \in Worlds : w.fresh}
    /\ conn = "fresh" /\ nonblock = FALSE /\ epoll = << >>
    /\ rxLog = <<>>
    /\ rxPos = 0
    /\ txWin = world.win
    /\ backlog = <<>>
    /\ waiting = NoToken
    /\ spin = 0
    /\ aborted = "none"
    /\ lastOp = NoOp
    /\ nsub = 0
    /\ npeek = 0
    /\ npeer = 0
    /\ nconn = 0
    /\ PktStart
    /\ dpdk = DpdkStart
    /\ menv = MtcpStart

\* dmtr::lwip_queue::new_object(q_out, qd).
NewObject(outcome) ==
    /\ dpdk.made < MaxCreations
    /\ dpdk.eal < MaxCreations
    /\ dpdk' = new_object(dpdk, outcome)
    /\ UNCHANGED << svars, pktvars, menv >>

\* MTCPQueue::socket(domain, type, protocol).
Socket(outcome) ==
    /\ menv.made < MaxCreations
    /\ menv' = socket(menv, outcome)
    /\ UNCHANGED << svars, pktvars, dpdk >>

BootNext ==
    \/ \E outcome \in DpdkOutcomes : NewObject(outcome)
    \/ \E outcome \in MtcpOutcomes : Socket(outcome)

BootSpec == BootInit /\ [][BootNext]_vars

TypeOK ==
    /\ DOMAIN pending \subseteq Tokens
    /\ rxPos \in 0..Len(rxLog)
    /\ waiting \in Tokens \cup {NoToken}
    /\ spin \in {0, 1}

\* ------------------------------------------------------------------------
\* Properties
\* ------------------------------------------------------------------------
\* The step is a call of push that returned or hit an assertion.
PushStep ==
    /\ lastOp'.op = "push"
    /\ nsub' = nsub + 1 \/ (aborted = "none" /\ aborted' # "none")

\* The transport can carry bytes in both directions.
Connected == conn \in {"open", "peer_closed"}

C2_PopSync ==
    (lastOp.op = "pop" /\ lastOp.req.isDone /\ lastOp.req.res > 0)
        => /\ aborted = "none"
           /\ lastOp.ret = lastOp.req.res
           /\ lastOp.out = lastOp.req.sga

\* C3: a push or pop that returned 0 has not completed, and its token is
\* in the pending map and in the work queue.
C3_ZeroMeansParked ==
    (lastOp.op \in {"push", "pop"} /\ aborted = "none" /\ lastOp.ret = 0)
        => /\ ~lastOp.req.isDone
           /\ lastOp.qt \in DOMAIN pending
           /\ \E i \in DOMAIN workQ : workQ[i] = lastOp.qt

\* The request has received, in stream order, exactly the frame of s.
HoldsFrame(req, s) ==
    /\ req.g_from >= 0
    /\ req.g_contig
    /\ req.num_bytes = Len(FrameBytes(s))
    /\ req.header \o req.buf = FrameBytes(s)

\* C4: a request that received the whole frame the encoder writes for an
\* sga is done, holds the same segments, and has the sender's result; fed
\* one byte per read it took 24 + payload_len reads.
C4_RoundTrip ==
    \A s \in AppSgas :
        HoldsFrame(lastOp.req, s)
            => /\ lastOp.req.isDone
               /\ lastOp.req.sga = s
               /\ lastOp.req.res = SumLens(s)
               /\ lastOp.req.g_ones
                    => lastOp.req.g_reads
                         = HeaderSize + SumLens(s) + Len(s) * WordSize

\* The transport direction of the request of q is ready.
Ready(q) ==
    /\ Connected
    /\ IF IS_PUSH(q) THEN txWin > 0 ELSE rxPos < Len(rxLog)

\* q is parked and not done, its direction is ready, and progress steps
\* are running.
Starved(q) ==
    /\ InWaitLoop
    /\ q \in DOMAIN pending
    /\ ~pending[q].isDone
    /\ Ready(q)

\* C5: no parked request stays not done for ever while its direction stays
\* ready and progress steps keep running.
C5_Progress == \A q \in Tokens : []<>~Starved(q)

\* C6: with two or more tokens in the work queue, the progress call that
\* follows one which attempted a request attempts another request.
C6_RoundRobin ==
    (InWaitLoop /\ lastOp.op = "progress" /\ lastOp.attempted # NoToken
        /\ Len(workQ) >= 2)
        => ProcessQ(FALSE).attempted # lastOp.attempted

\* A push is parked first and a pop second, the push would block, the
\* frame of a one-segment sga is readable, and wait() runs on the pop.
PushThenPop ==
    /\ InWaitLoop
    /\ Len(workQ) = 2
    /\ IS_PUSH(workQ[1])
    /\ ~IS_PUSH(workQ[2])
    /\ waiting = workQ[2]
    /\ conn = "open"
    /\ txWin = 0
    /\ pending[workQ[2]].num_bytes = 0
    /\ \E s \in AppSgas :
          /\ Len(s) = 1
          /\ SubSeq(rxLog, rxPos + 1, Len(rxLog)) = FrameBytes(s)

\* C7: with a push parked first and blocked, a pop parked second and its
\* bytes readable, a progress step of wait(pop) advances the requests:
\* otherwise every later step finds the same state and wait(pop) does not
\* return while the push is blocked.
C7_PopFirst ==
    PushThenPop
        => \E r \in {ProcessQ(FALSE)} :
              r.pending # pending \/ r.workQ # workQ

\* C8: a progress step that changes the pending request of one token
\* leaves the pending request of every other token unchanged.
C8_Independence ==
    [][(lastOp'.op = "progress" /\ spin' # spin /\ aborted' = "none")
        => /\ DOMAIN pending' = DOMAIN pending
           /\ \A q1, q2 \in DOMAIN pending :
                 (q1 # q2 /\ pending'[q1] # pending[q1])
                     => pending'[q2] = pending[q2]]_vars

\* A progress step completed one of two parked requests; the other is
\* still not done.
C8_Witness ==
    /\ aborted = "none"
    /\ lastOp.op = "progress"
    /\ lastOp.attempted \in DOMAIN pending
    /\ pending[lastOp.attempted].isDone
    /\ \E q \in DOMAIN pending :
          q # lastOp.attempted /\ ~pending[q].isDone

\* The request read a whole header whose first word is not MAGIC.
BadMagic(req) ==
    /\ req.g_from >= 0
    /\ req.num_bytes >= HeaderSize
    /\ SubSeq(req.header, 1, WordSize) # U64Bytes(MAGIC)

\* The request is done with -1, owns no payload buffer and consumed the
\* header only.
Gated(req) ==
    /\ req.isDone
    /\ req.res = -1
    /\ req.bufNull
    /\ req.buf = <<>>
    /\ req.num_bytes = HeaderSize

\* C9: a request whose header does not start with MAGIC is done with -1
\* and has no payload buffer; the call that completed its header issued no
\* read after the header's, and the request is in the work queue no more,
\* so that no later progress step reads for it.
C9_MagicGating ==
    /\ \A q \in DOMAIN pending :
          BadMagic(pending[q])
              => /\ Gated(pending[q])
                 /\ \A i \in DOMAIN workQ : workQ[i] # q
    /\ BadMagic(lastOp.req) => Gated(lastOp.req) /\ lastOp.nreads <= 1

\* A progress step completed a parked pop on a header without MAGIC.
C9_Witness ==
    /\ aborted = "none"
    /\ lastOp.op = "progress"
    /\ lastOp.attempted \in DOMAIN pending
    /\ BadMagic(pending[lastOp.attempted])
    /\ lastOp.nreads = 1

\* C10: after close(), a poll that names a token still parked and not done
\* reports a negative result.
C10_CloseCancels ==
    (aborted = "none" /\ conn = "closed" /\ lastOp.op = "poll"
        /\ lastOp.qt \in DOMAIN pending /\ ~pending[lastOp.qt].isDone)
        => lastOp.ret < 0

\* C11: wait(qt) returns only when the pending request of qt is done, and
\* returns that request's result without touching the queue; while the
\* request is not done, all that a step inside wait changes of the queue and
\* of what it has read is what one ProcessQ(1) changes.
C11_WaitContract ==
    [][ /\ (waiting # NoToken /\ waiting' = NoToken /\ aborted' = "none")
            => /\ pending[waiting].isDone
               /\ lastOp'.op = "waitret"
               /\ lastOp'.qt = waiting
               /\ lastOp'.ret = pending[waiting].res
               /\ UNCHANGED << qvars, epoll, nonblock, conn, rxPos, backlog >>
        /\ (/\ waiting # NoToken
            /\ waiting' = waiting
            /\ << qvars, epoll, nonblock >>' # << qvars, epoll, nonblock >>)
            => /\ ~pending[waiting].isDone
               /\ \E short \in BOOLEAN :
                     /\ pending' = ProcessQ(short).pending
                     /\ workQ' = ProcessQ(short).workQ
                     /\ accepts' = ProcessQ(short).accepts
                     /\ backlog' = ProcessQ(short).backlog
                     /\ rxPos' = ProcessQ(short).pos
               /\ UNCHANGED << listening, mtcp_evts, epoll, nonblock >>
      ]_vars

\* A wait has returned the result of a request that was parked and that a
\* progress step completed.
C11_Witness ==
    /\ aborted = "none"
    /\ lastOp.op = "waitret"
    /\ lastOp.qt \in DOMAIN pending
    /\ pending[lastOp.qt].isDone
    /\ lastOp.ret = pending[lastOp.qt].res
    /\ lastOp.ret > 0

\* C12: a poll that names a parked request that is not done returns 0 and
\* leaves the pending map with every request's cursor, header and buffer,
\* the work queue, the accept backlog, the readiness interest and the
\* transport's unread bytes as they were; so does every repetition of it.
C12_PollIdempotent ==
    [][ (/\ aborted' = "none"
         /\ lastOp'.op = "poll"
         /\ lastOp' # lastOp
         /\ ~pending[lastOp'.qt].isDone)
            => /\ lastOp'.ret = 0
               /\ lastOp'.out = <<>>
               /\ UNCHANGED << qvars, epoll, nonblock, conn, backlog, rxLog,
                               rxPos, txWin >>
      ]_vars

\* A poll has returned 0 for a request that is parked behind unread bytes of
\* its own frame and is at the head of the work queue: a progress step
\* would have moved it.
C12_Witness ==
    /\ aborted = "none"
    /\ lastOp.op = "poll"
    /\ lastOp.ret = 0
    /\ workQ # <<>>
    /\ Head(workQ) = lastOp.qt
    /\ ~IS_PUSH(lastOp.qt)
    /\ ~pending[lastOp.qt].isDone
    /\ conn = "open"
    /\ rxPos < Len(rxLog)

\* C14: a peek inserts nothing into the pending map or the work queue, and
\* a peek that finds no full frame returns 0 having taken no byte from the
\* transport: what it read stays available to the next pop or peek.
C14_PeekNoLoss ==
    (aborted = "none" /\ lastOp.op = "peek" /\ ~lastOp.req.isDone)
        => /\ lastOp.ret = 0
           /\ lastOp.req.num_bytes = 0

\* C15: on a listening queue whose transport holds no connection to accept
\* and whose list of accepted connections is empty, accept returns 0,
\* yields no new descriptor, registers no handle for readiness and leaves
\* the list empty.
C15_AcceptNonBlocking ==
    [][ (/\ aborted' = "none"
         /\ lastOp'.op = "accept"
         /\ lastOp' # lastOp
         /\ listening
         /\ backlog = <<>>
         /\ accepts = <<>>)
            => /\ lastOp'.ret = 0
               /\ lastOp'.out = <<>>
               /\ accepts' = <<>>
               /\ backlog' = <<>>
               /\ UNCHANGED << pending, workQ, listening, mtcp_evts, epoll,
                               conn, nonblock >>
      ]_vars

\* accept has returned 0 on a listening queue with nothing to accept.
C15_Witness ==
    /\ aborted = "none"
    /\ lastOp.op = "accept"
    /\ lastOp.ret = 0
    /\ listening
    /\ conn = "listen"
    /\ backlog = <<>>
    /\ accepts = <<>>
    /\ nconn = 0

\* C16: a request of the pending map that is done stays in the map, stays
\* done and keeps its result through every later call and progress step.
C16_DoneOnce ==
    [][ aborted' = "none"
        => \A q \in DOMAIN pending :
              pending[q].isDone
                 => /\ q \in DOMAIN pending'
                    /\ pending'[q].isDone
                    /\ pending'[q].res = pending[q].res
      ]_vars

\* A progress step has attempted a request while another request of the
\* map was done already.
C16_Witness ==
    /\ aborted = "none"
    /\ lastOp.op = "progress"
    /\ lastOp.attempted # NoToken
    /\ \E q \in DOMAIN pending \ {lastOp.attempted} :
          pending[q].isDone /\ pending[q].res # 0

\* C17: once a wait or a poll has returned the result of a done request,
\* the pending map no longer holds the record of its token.
C17_RemovedWhenClaimed ==
    (/\ aborted = "none"
     /\ \/ lastOp.op = "waitret"
        \/ lastOp.op = "poll" /\ lastOp.ret # 0)
        => lastOp.qt \notin DOMAIN pending

\* C18: no token is twice in the work queue, the tokens of the work queue
\* stand in the order of their submission (a token's submission number is
\* qt \div 2), and a push or pop whose request is not done and whose token
\* is in the pending map already ends in the assertion instead of
\* inserting.
C18_TokensOnce ==
    /\ [](\A i, j \in 1..Len(workQ) :
             i < j => (workQ[i] \div 2) < (workQ[j] \div 2))
    /\ [][ (/\ lastOp'.op \in {"push", "pop"}
             /\ lastOp' # lastOp
             /\ lastOp'.qt \in DOMAIN pending
             /\ ~lastOp'.req.isDone)
                => /\ aborted' # "none"
                   /\ pending' = << >>
                   /\ workQ' = <<>>
          ]_vars

\* A push or pop has submitted a token that was parked already, and the
\* assertion of Enqueue has ended the process.
C18_Witness ==
    /\ aborted = "assert pending.find(qt) == pending.end()"
    /\ lastOp.op \in {"push", "pop"}
    /\ ~lastOp.req.isDone

\* ------------------------------------------------------------------------
\* Packet backend: polling, receive validation and the round trip
\* ------------------------------------------------------------------------
\* Some queue on the NIC of host h accepts the datagram: its complete_recv
\* would deliver it.
Deliverable(h, pkt) ==
    \E q \in PQueues : HostOf(q) = h /\ Passes(h, my_bound_addr[q], pkt)

\* C13: a poll on a pop token that returns without the task being done has
\* not taken away a packet that a later poll could have delivered: the
\* packet it took from the receive path, if any, is one that no queue on
\* the NIC accepts.
C13_PollKeepsPackets ==
    (plast.op = "poll" /\ plast.task.opcode = "POP" /\ ~plast.task.done)
        => \A i \in 1..Len(plast.pkt) : ~Deliverable(HostOf(plast.q), plast.pkt[i])

\* The datagram is one that queue q must not deliver: its destination MAC is
\* not the NIC's, its ethertype is not IPv4, its protocol is not UDP, or the
\* queue is bound and the destination address or port differs from the
\* bound one.
Rejected(q, pkt) ==
    \/ pkt.d_addr # NicMac(HostOf(q))
    \/ ntohs(pkt.ether_type) # ETHER_TYPE_IPv4
    \/ pkt.next_proto_id # IPPROTO_UDP
    \/ /\ my_bound_addr[q].set
       /\ \/ pkt.dst_addr # my_bound_addr[q].addr
          \/ ntohs(pkt.dst_port) # my_bound_addr[q].port

\* C19: a poll whose received packet fails the validation (destination MAC,
\* ethertype, protocol, or the bound address and port of a bound queue)
\* completes no task and delivers nothing: every task is as it was and the
\* polled task is not done.
C19_RecvValidation ==
    [][(/\ plast'.op = "poll"
        /\ plast'.pkt # <<>>
        /\ Rejected(plast'.q, plast'.pkt[1]))
           => /\ tasks' = tasks
              /\ ~plast'.task.done
              /\ plast'.task.sga.segs = <<>>
              /\ plast'.ret = EAGAIN]_vars

\* A bound queue polled a datagram that is addressed to its NIC and address
\* but to another port, and the task stayed open.
C19_Witness ==
    /\ plast.op = "poll"
    /\ plast.pkt # <<>>
    /\ my_bound_addr[plast.q].set
    /\ plast.pkt[1].d_addr = NicMac(HostOf(plast.q))
    /\ plast.pkt[1].dst_addr = my_bound_addr[plast.q].addr
    /\ ntohs(plast.pkt[1].dst_port) # my_bound_addr[plast.q].port
    /\ ~plast.task.done

\* C20: a datagram that complete_send built and complete_recv delivered at
\* the receiver gives the segments that were pushed, and the peer address
\* reported is the sender's source address and port (its bound address, or
\* the MAC-derived address when unbound).
C20_PacketRoundTrip ==
    (/\ plast.op = "poll"
     /\ plast.task.opcode = "POP"
     /\ plast.task.done
     /\ plast.pkt # <<>>
     /\ plast.pkt[1].g_q # 0)
        => /\ plast.task.sga.segs = plast.pkt[1].g_segs
           /\ plast.task.sga.addr = plast.pkt[1].g_src

\* The segments alone do make the round trip.
C20_SegmentsRoundTrip ==
    (/\ plast.op = "poll"
     /\ plast.task.opcode = "POP"
     /\ plast.task.done
     /\ plast.pkt # <<>>
     /\ plast.pkt[1].g_q # 0)
        => plast.task.sga.segs = plast.pkt[1].g_segs

\* ------------------------------------------------------------------------
\* Packet backend: bind and close
\* ------------------------------------------------------------------------
\* C21: a bind on a queue that is bound already, with port 0 or with a
\* wrong address size fails and leaves the bound address of every queue as
\* it was; any other bind succeeds, also the one after a close, and stores
\* the port and the address given, with INADDR_ANY replaced by the
\* address-table entry of the NIC's MAC; after close the queue is unbound.
C21_BindMisuse ==
    /\ [](plast.op = "close" => ~my_bound_addr[plast.q].set)
    /\ [][(pctl' # pctl /\ plast'.op = "bind")
            => IF \/ plast'.before.set
                  \/ plast'.saddr.port = 0
                  \/ plast'.size # SockaddrSize
               THEN /\ plast'.ret # "0"
                    /\ my_bound_addr' = my_bound_addr
               ELSE /\ plast'.ret = "0"
                    /\ my_bound_addr'[plast'.q].set
                    /\ my_bound_addr'[plast'.q].port = plast'.saddr.port
                    /\ my_bound_addr'[plast'.q].addr =
                          IF plast'.saddr.addr = INADDR_ANY
                          THEN mac_to_ip(NicMac(HostOf(plast'.q)))
                          ELSE plast'.saddr.addr
                    /\ \A o \in PQueues \ {plast'.q} :
                          my_bound_addr'[o] = my_bound_addr[o]
          ]_vars

\* A queue that was bound and then closed has been bound again, with
\* INADDR_ANY, and holds the address of its NIC from the table.
C21_Witness ==
    /\ plast.op = "bind"
    /\ plast.reopened
    /\ plast.ret = "0"
    /\ plast.saddr.addr = INADDR_ANY
    /\ my_bound_addr[plast.q].addr = ip_config[HostOf(plast.q)].ip

\* A bind on a bound queue has failed and left the address alone.
C21_WitnessBound ==
    /\ plast.op = "bind"
    /\ plast.before.set
    /\ plast.ret = EINVAL
    /\ my_bound_addr[plast.q] = plast.before

\* ------------------------------------------------------------------------
\* Stream backend: listen and readiness interest
\* ------------------------------------------------------------------------
\* C22: after a successful listen the queue is marked listening, its handle
\* is non-blocking and read interest for the handle is registered with the
\* notifier; after a failed listen the queue is not marked listening.
C22_ListenRegisters ==
    [][(aborted' = "none" /\ lastOp'.op = "listen" /\ lastOp' # lastOp)
          => IF lastOp'.ret = 0
             THEN /\ listening'
                  /\ nonblock'
                  /\ QFd \in DOMAIN epoll'
                  /\ EPOLLIN \in epoll'[QFd]
             ELSE listening' = listening]_vars

\* What listen does do: the flag and the mode of the handle.
C22_ListenMarks ==
    [][(aborted' = "none" /\ lastOp'.op = "listen" /\ lastOp' # lastOp)
          => IF lastOp'.ret = 0
             THEN listening' /\ nonblock'
             ELSE listening' = listening]_vars

\* A request of the direction (push or not) is parked and not done.
Outstanding(push) ==
    \E t \in DOMAIN pending : IS_PUSH(t) = push /\ ~pending[t].isDone

\* The interest bit is set, in the queue's record or for its handle in the
\* notifier.
Interested(bit) ==
    \/ bit \in mtcp_evts
    \/ QFd \in DOMAIN epoll /\ bit \in epoll[QFd]

\* C23: when a progress step has completed a push and no push remains
\* outstanding, write interest is removed; when it has completed a pop, no
\* pop remains outstanding and the queue does not listen, read interest is
\* removed.
C23_InterestCleared ==
    (/\ aborted = "none"
     /\ lastOp.op = "progress"
     /\ lastOp.attempted # NoToken
     /\ lastOp.req.isDone)
        => /\ (IS_PUSH(lastOp.attempted) /\ ~Outstanding(TRUE))
                 => ~Interested(EPOLLOUT)
           /\ (~IS_PUSH(lastOp.attempted) /\ ~Outstanding(FALSE)
               /\ ~listening)
                 => ~Interested(EPOLLIN)

\* The write half of C23 alone.
C23_WriteCleared ==
    (/\ aborted = "none"
     /\ lastOp.op = "progress"
     /\ lastOp.attempted # NoToken
     /\ lastOp.req.isDone
     /\ IS_PUSH(lastOp.attempted)
     /\ ~Outstanding(TRUE))
        => ~Interested(EPOLLOUT)

\* The read half of C23 alone.
C23_ReadCleared ==
    (/\ aborted = "none"
     /\ lastOp.op = "progress"
     /\ lastOp.attempted # NoToken
     /\ lastOp.req.isDone
     /\ ~IS_PUSH(lastOp.attempted)
     /\ ~Outstanding(FALSE)
     /\ ~listening)
        => ~Interested(EPOLLIN)

\* The interest bit a submission asks for.
Direction(op) == IF op = "push" THEN EPOLLOUT ELSE EPOLLIN

\* C24: a push or pop on a handle that is registered with the notifier
\* leaves registered the union of what was registered before and the new
\* direction, and afterwards the queue's recorded interest bits equal what
\* is registered for its handle.
C24_InterestAdded ==
    [][(/\ aborted' = "none"
        /\ nsub' # nsub
        /\ lastOp'.op \in {"push", "pop"}
        /\ QFd \in DOMAIN epoll)
          => /\ QFd \in DOMAIN epoll'
             /\ epoll'[QFd] = epoll[QFd] \cup {Direction(lastOp'.op)}
             /\ mtcp_evts' = epoll'[QFd]]_vars

\* What push and pop do keep: the recorded bits only grow, by the new
\* direction, and the handle is registered with exactly the recorded bits.
C24_RecordedAdded ==
    [][(/\ aborted' = "none"
        /\ nsub' # nsub
        /\ lastOp'.op \in {"push", "pop"}
        /\ QFd \in DOMAIN epoll)
          => /\ mtcp_evts' = mtcp_evts \cup {Direction(lastOp'.op)}
             /\ epoll'[QFd] = mtcp_evts']_vars

\* ------------------------------------------------------------------------
\* Stream backend: partial writes, transport failures, malformed frames
\* ------------------------------------------------------------------------
\* C25: when the transport has taken only part of the frame of a push
\* (0 < bytes written < 24 + payload_len), no assertion fails and the push
\* is parked, not done, with its cursor advanced by the bytes written.
C25_PartialWrite ==
    (/\ lastOp.attempted # NoToken
     /\ IS_PUSH(lastOp.attempted)
     /\ 0 < Len(lastOp.wrote)
     /\ Len(lastOp.wrote) < Len(FrameBytes(lastOp.req.sga)))
        => /\ aborted = "none"
           /\ lastOp.attempted \in DOMAIN pending
           /\ ~pending[lastOp.attempted].isDone
           /\ pending[lastOp.attempted].num_bytes = Len(lastOp.wrote)

\* The step is an attempt of push, pop or a progress step on a transport
\* whose handle fails every read and write with a hard error, and the
\* attempt did issue the read or the write.
FailedTransfer ==
    /\ aborted' = "none"
    /\ lastOp'.op \in {"push", "pop", "progress"}
    /\ << pending, workQ, lastOp, nsub >>' # << pending, workQ, lastOp, nsub >>
    /\ lastOp'.attempted # NoToken
    /\ conn \notin {"open", "peer_closed"}
    /\ ~listening
    /\ IS_PUSH(lastOp'.attempted) \/ lastOp'.nreads > 0

\* C26: a header read, payload read or frame write that fails with a hard
\* error makes the request done with the negative errno of the failure as
\* its result, and after a progress step the token is not in the work
\* queue.
C26_TransportFailure ==
    [][FailedTransfer
          => /\ lastOp'.req.isDone
             /\ lastOp'.req.res = 0 - ErrnoValue(HardErrno)
             /\ lastOp'.op = "progress"
                   => \A i \in 1..Len(workQ') : workQ'[i] # lastOp'.attempted
      ]_vars

\* What the code does on a hard error: the request is done with the return
\* value of the failed call, which is -1, and leaves the work queue.
C26_FailureCompletes ==
    [][FailedTransfer
          => /\ lastOp'.req.isDone
             /\ lastOp'.req.res = 0 - 1
             /\ lastOp'.op = "progress"
                   => \A i \in 1..Len(workQ') : workQ'[i] # lastOp'.attempted
      ]_vars

\* The request holds a whole frame behind a valid magic whose segment count
\* is 0 or whose segment records do not exactly consume payload_len.
MalformedFrame(req) ==
    /\ MagicOk(req)
    /\ req.num_bytes = HeaderSize + HeaderWord(req, 1)
    /\ \/ HeaderWord(req, 2) = 0
       \/ FillSga(req.buf, 0, HeaderWord(req, 2)).oob
       \/ FillSga(req.buf, 0, HeaderWord(req, 2)).len
             + HeaderWord(req, 2) * WordSize # HeaderWord(req, 1)

\* C27: a pop whose attempt has received such a frame in full is done with
\* result -1, and the process has not aborted.
C27_MalformedFrame ==
    (/\ lastOp.op \in {"pop", "progress"}
     /\ lastOp.attempted # NoToken
     /\ ~IS_PUSH(lastOp.attempted)
     /\ MalformedFrame(lastOp.req))
        => /\ aborted = "none"
           /\ lastOp.req.isDone
           /\ lastOp.req.res = 0 - 1

\* The request without the note that a read of it returned no bytes.
Unnoted(req) == [req EXCEPT !.g_zero = FALSE]

\* The step is a progress step whose attempt on the pop at the head of the
\* work queue issued a read at the end of a stream that the peer has
\* closed: the read returned zero bytes.
ZeroRead ==
    /\ aborted' = "none"
    /\ lastOp'.op = "progress"
    /\ << pending, workQ, lastOp, spin >>' # << pending, workQ, lastOp, spin >>
    /\ lastOp'.attempted # NoToken
    /\ ~IS_PUSH(lastOp'.attempted)
    /\ lastOp'.nreads > 0
    /\ ~listening
    /\ conn = "peer_closed"
    /\ rxPos = Len(rxLog)

\* The step is a pop whose own attempt issued such a read.
ZeroReadPop ==
    /\ aborted' = "none"
    /\ nsub' # nsub
    /\ lastOp'.op = "pop"
    /\ lastOp'.nreads > 0
    /\ ~listening
    /\ conn = "peer_closed"
    /\ rxPos = Len(rxLog)

\* C28: a read that returns zero bytes, in the header phase or the payload
\* phase, leaves the request as it was, not done, with cursor, header and
\* payload buffer unchanged, and leaves its token at the head of the work
\* queue, where the next progress step attempts it again.
C28_ZeroRead ==
    /\ [][ZeroRead
          => /\ lastOp'.attempted \in DOMAIN pending
             /\ Unnoted(pending'[lastOp'.attempted])
                   = Unnoted(pending[lastOp'.attempted])
             /\ ~pending'[lastOp'.attempted].isDone
             /\ workQ' = workQ
             /\ workQ' # <<>>
             /\ Head(workQ') = lastOp'.attempted
             /\ rxPos' = rxPos]_vars
    /\ [][ZeroReadPop
            => /\ lastOp'.qt \in DOMAIN pending'
               /\ Unnoted(pending'[lastOp'.qt]) = PendingRequest(<<>>)
               /\ workQ' = Append(workQ, lastOp'.qt)
               /\ rxPos' = rxPos]_vars

\* A parked pop that holds part of a frame has seen a read return no bytes
\* and is still parked, not done.
C28_Witness ==
    /\ aborted = "none"
    /\ lastOp.op = "progress"
    /\ lastOp.attempted \in DOMAIN pending
    /\ pending[lastOp.attempted].g_zero
    /\ pending[lastOp.attempted].num_bytes > HeaderSize
    /\ ~pending[lastOp.attempted].isDone
    /\ workQ # <<>>
    /\ Head(workQ) = lastOp.attempted

\* The same in the header phase.
C28_WitnessHeader ==
    /\ aborted = "none"
    /\ lastOp.op = "progress"
    /\ lastOp.attempted \in DOMAIN pending
    /\ pending[lastOp.attempted].g_zero
    /\ pending[lastOp.attempted].num_bytes < HeaderSize
    /\ ~pending[lastOp.attempted].isDone

\* The bytes a pop request holds: the cursor's worth of the header and of
\* the payload buffer behind it.
Held(req) ==
    SubSeq(req.header, 1, Min(req.num_bytes, HeaderSize))
        \o SubSeq(req.buf, 1, req.num_bytes - HeaderSize)

\* The cursor is within the header while no buffer is allocated, and within
\* the frame that the header announces afterwards; a buffer is allocated
\* only behind a whole header with the right magic.
CursorInFrame(req) ==
    /\ req.num_bytes >= 0
    /\ Len(req.header) = HeaderSize
    /\ IF req.bufNull
       THEN /\ req.num_bytes <= HeaderSize
            /\ req.buf = <<>>
       ELSE /\ req.num_bytes >= HeaderSize
            /\ MagicOk(req)
            /\ req.bufSize = HeaderWord(req, 1)
            /\ req.num_bytes <= HeaderSize + HeaderWord(req, 1)
            /\ Len(req.buf) <= req.bufSize

\* The step made a decoding attempt: pop or peek on a fresh request, or a
\* progress step on the pop at the head of the work queue.
DecodeStep ==
    /\ aborted = "none"
    /\ \/ /\ lastOp'.op = "progress"
          /\ spin' # spin \/ aborted' # "none"
          /\ lastOp'.attempted # NoToken
          /\ ~IS_PUSH(lastOp'.attempted)
       \/ /\ lastOp'.op = "pop"
          /\ nsub' # nsub \/ aborted' # "none"
       \/ /\ lastOp'.op = "peek"
          /\ npeek' # npeek \/ aborted' # "none"

\* The request before the attempt of the step.
DecodeBefore ==
    IF lastOp'.op = "progress" THEN pending[lastOp'.attempted]
    ELSE PendingRequest(<<>>)

\* C29: for every pop request the cursor never decreases and stays within
\* 24 + payload_len; the bytes an attempt receives are the next bytes of the
\* stream, stored from the cursor on, and the bytes stored before stay as
\* they were; the payload buffer is allocated at most once, and only behind
\* a header with the right magic.
C29_DecoderCursor ==
    /\ [][DecodeStep
            => LET a == DecodeBefore
                   b == lastOp'.req
                   n == b.num_bytes - a.num_bytes
               IN /\ CursorInFrame(b)
                  /\ n >= 0
                  /\ rxPos + n <= Len(rxLog)
                  /\ aborted' = "none" => rxPos' = rxPos + n
                  /\ SubSeq(Held(b), 1, a.num_bytes) = Held(a)
                  /\ SubSeq(Held(b), a.num_bytes + 1, b.num_bytes)
                        = SubSeq(rxLog, rxPos + 1, rxPos + n)
                  /\ ~a.bufNull => /\ ~b.bufNull
                                   /\ b.bufSize = a.bufSize
                  /\ \A i \in (b.num_bytes + 1)..HeaderSize :
                        b.header[i] = a.header[i]]_vars
    /\ [][\/ pending' = pending
          \/ \A t \in DOMAIN pending \cap DOMAIN pending' :
                \/ pending'[t] = pending[t]
                \/ IS_PUSH(t)
                \/ DecodeStep /\ lastOp'.attempted = t]_vars

\* A progress step continued a pop that already held part of a payload: it
\* received more bytes behind a cursor past the header.
C29_Witness ==
    /\ aborted = "none"
    /\ lastOp.op = "progress"
    /\ lastOp.attempted # NoToken
    /\ ~IS_PUSH(lastOp.attempted)
    /\ lastOp.req.g_reads >= 3
    /\ lastOp.req.num_bytes > HeaderSize + 1
    /\ ~lastOp.req.bufNull
    /\ ~lastOp.req.isDone

\* The step is one ProcessQ(1) on a work queue that is not empty.
ProgressStep ==
    /\ aborted = "none"
    /\ aborted' = "none"
    /\ lastOp'.op = "progress"
    /\ spin' # spin
    /\ workQ # <<>>

\* A token of the work queue has no record in the pending map.
Orphan ==
    \E i \in 1..Len(workQ) : workQ[i] \notin DOMAIN pending

\* C30: one ProcessQ(1) on a work queue that is not empty looks at the head
\* token only.  A head without a record is dropped and nothing is attempted
\* (no record is ever erased, so this does not arise); otherwise the head's
\* request gets one attempt, encoding for a push token and decoding for a
\* pop token, the token leaves the work queue exactly when its request is
\* done afterwards, and the entries behind it stay as they are.
C30_OneStep ==
    /\ [](~Orphan)
    /\ [][ProgressStep
            => LET qt == Head(workQ)
               IN IF qt \notin DOMAIN pending
                  THEN /\ workQ' = Tail(workQ)
                       /\ pending' = pending
                       /\ lastOp'.attempted = NoToken
                       /\ lastOp'.nreads = 0
                       /\ lastOp'.wrote = <<>>
                       /\ rxPos' = rxPos
                  ELSE /\ lastOp'.attempted = qt
                       /\ DOMAIN pending' = DOMAIN pending
                       /\ \A t \in DOMAIN pending \ {qt} :
                             pending'[t] = pending[t]
                       /\ lastOp'.req = pending'[qt]
                       /\ IF IS_PUSH(qt)
                          THEN /\ lastOp'.nreads = 0
                               /\ rxPos' = rxPos
                               /\ pending'[qt].num_bytes
                                     = pending[qt].num_bytes
                                          + Len(lastOp'.wrote)
                          ELSE /\ lastOp'.wrote = <<>>
                               /\ lastOp'.nreads \in 0..2
                               /\ pending'[qt].num_bytes - pending[qt].num_bytes
                                     = rxPos' - rxPos
                       /\ workQ' = IF pending'[qt].isDone THEN Tail(workQ)
                                   ELSE workQ]_vars

\* A progress step completed the push at the head of the work queue and
\* removed its token; the token behind it is now the head.
C30_Witness ==
    /\ aborted = "none"
    /\ lastOp.op = "progress"
    /\ lastOp.attempted # NoToken
    /\ IS_PUSH(lastOp.attempted)
    /\ lastOp.attempted \in DOMAIN pending
    /\ pending[lastOp.attempted].isDone
    /\ lastOp.wrote # <<>>
    /\ workQ # <<>>
    /\ \A i \in 1..Len(workQ) : workQ[i] # lastOp.attempted

\* A progress step attempted the pop at the head of the work queue and left
\* it there, not done, in front of another token.
C30_WitnessParked ==
    /\ aborted = "none"
    /\ lastOp.op = "progress"
    /\ lastOp.attempted # NoToken
    /\ ~IS_PUSH(lastOp.attempted)
    /\ lastOp.nreads > 0
    /\ Len(workQ) > 1
    /\ Head(workQ) = lastOp.attempted
    /\ ~pending[lastOp.attempted].isDone

\* The connections the transport has produced, in order.
Produced ==
    [i \in 1..nconn |-> [fd |-> ConnFd(i - 1), addr |-> 100 + (i - 1)]]

\* The connections not returned yet: those the queue has taken from the
\* transport, then those still with the transport.
Unreturned == accepts \o backlog

\* C31: the connections not yet returned are always the latest ones the
\* transport produced, in its order; an accept that returns a handle
\* returns the oldest of them and removes exactly it; no other step removes
\* or reorders one.
C31_AcceptFifo ==
    /\ [](aborted = "none"
            => /\ Len(Unreturned) <= nconn
               /\ Unreturned = SubSeq(Produced, nconn - Len(Unreturned) + 1,
                                      nconn))
    /\ [][aborted' = "none"
            => IF lastOp'.op = "accept" /\ lastOp' # lastOp /\ lastOp'.ret # 0
               THEN /\ Unreturned # <<>>
                    /\ lastOp'.ret = Head(Unreturned).fd
                    /\ lastOp'.out = <<Head(Unreturned).addr>>
                    /\ Unreturned' = Tail(Unreturned)
                    /\ nconn' = nconn
               ELSE \/ Unreturned' = Unreturned
                    \/ /\ nconn' = nconn + 1
                       /\ Unreturned' = Append(Unreturned, Produced'[nconn'])
      ]_vars

\* The second connection of the transport is returned by accept after the
\* first, and nothing is left to return.
C31_Witness ==
    /\ aborted = "none"
    /\ listening
    /\ lastOp.op = "accept"
    /\ lastOp.ret = ConnFd(1)
    /\ nconn = 2
    /\ Unreturned = <<>>

\* accept returns a connection that a pop on the listening queue took from
\* the transport, while a later one is still with the transport.
C31_WitnessPopped ==
    /\ aborted = "none"
    /\ listening
    /\ nsub > 0
    /\ lastOp.op = "accept"
    /\ lastOp.ret = ConnFd(0)
    /\ lastOp.req.isDone
    /\ accepts # <<>>

\* The packet carries the destination that complete_send derives from the
\* socket address to.
DestinedTo(pkt, to) ==
    /\ pkt.dst_addr = to.addr
    /\ pkt.dst_port = htons(to.port)
    /\ pkt.d_addr = ip_to_mac(htonl(to.addr))

\* C32: a connect on a queue that is bound or has a default peer returns
\* EPERM and leaves the default peer as it was, any other connect records
\* its address as the default peer; a push of a queue with a default peer
\* is transmitted to the default peer whatever address its sga carries, and
\* a push of a queue without one to the address of its sga.
C32_DefaultPeer ==
    /\ [][(pctl' # pctl /\ plast'.op = "connect")
            => LET q == plast'.q
               IN /\ IF my_bound_addr[q].set \/ my_default_peer[q].set
                     THEN /\ plast'.ret = EPERM
                          /\ my_default_peer' = my_default_peer
                     ELSE /\ plast'.ret = "0"
                          /\ my_default_peer'[q].set
                          /\ my_default_peer'[q].addr = plast'.saddr.addr
                          /\ my_default_peer'[q].port = plast'.saddr.port
                  /\ \A r \in PQueues \ {q} :
                        my_default_peer'[r] = my_default_peer[r]]_vars
    /\ [][(plast'.op = "poll" /\ plast' # plast /\ plast'.sent # <<>>)
            => /\ Len(plast'.sent) = 1
               /\ plast'.task.opcode = "PUSH"
               /\ DestinedTo(plast'.sent[1],
                             IF my_default_peer[plast'.q].set
                             THEN my_default_peer[plast'.q]
                             ELSE plast'.task.sga.addr)]_vars

\* A push whose sga names another port than the default peer of its queue
\* has been transmitted to the default peer.
C32_Witness ==
    /\ plast.op = "poll"
    /\ plast.sent # <<>>
    /\ my_default_peer[plast.q].set
    /\ plast.task.sga.addr.port # my_default_peer[plast.q].port
    /\ plast.sent[1].dst_port = htons(my_default_peer[plast.q].port)
    /\ plast.sent[1].dst_port # htons(plast.task.sga.addr.port)

\* A connect on a queue that has a default peer returned EPERM.
C32_WitnessRefused ==
    /\ plast.op = "connect"
    /\ plast.ret = EPERM
    /\ my_default_peer[plast.q].set
    /\ my_default_peer[plast.q].port # plast.saddr.port

\* A push of a queue without a default peer has been transmitted.
C32_WitnessUnconnected ==
    /\ plast.op = "poll"
    /\ plast.sent # <<>>
    /\ ~my_default_peer[plast.q].set

\* C33: over any sequence of queue creations, also with initialisations
\* that fail part-way, each step of the transport initialisation runs at
\* most once on each backend, and an initialised flag that is set stays set.
C33_InitOnce ==
    /\ [](/\ dpdk.eal <= 1
          /\ dpdk.pools <= 1
          /\ dpdk.ports <= 1
          /\ menv.inits <= 1
          /\ menv.ctxs <= 1
          /\ menv.eps <= 1)
    /\ [][/\ dpdk.our_dpdk_init_flag => dpdk'.our_dpdk_init_flag
          /\ menv.mtcp_env_initialized => menv'.mtcp_env_initialized]_vars

\* What holds of it: a flag that is set stays set, and from then on no step
\* of the initialisation runs again.
C33_OnceInitialised ==
    [][/\ dpdk.our_dpdk_init_flag
            => /\ dpdk'.our_dpdk_init_flag
               /\ dpdk'.eal = dpdk.eal
               /\ dpdk'.pools = dpdk.pools
               /\ dpdk'.ports = dpdk.ports
               /\ dpdk'.our_mbuf_pool = dpdk.our_mbuf_pool
       /\ menv.mtcp_env_initialized
            => /\ menv'.mtcp_env_initialized
               /\ menv'.inits = menv.inits
               /\ menv'.ctxs = menv.ctxs
               /\ menv'.eps = menv.eps]_vars

\* Without a failure every step has run once however many queues were
\* created.
C33_OnceWithoutFailure ==
    /\ (dpdk.eal = dpdk.ports /\ dpdk.made > 0)
          => (dpdk.eal = 1 /\ dpdk.pools = 1)
    /\ (menv.inits = menv.eps /\ menv.made > 0)
          => (menv.inits = 1 /\ menv.ctxs = 1)

\* The tokens of the work queue.
Queued == {workQ[i] : i \in 1..Len(workQ)}

\* C34: every token of the work queue has a record that is not done, every
\* record that is not done has its token in the work queue, once; and a
\* progress step never attempts a request that is done.
C34_WorkQueueConsistent ==
    /\ [](aborted = "none"
            => /\ \A t \in Queued : t \in DOMAIN pending /\ ~pending[t].isDone
               /\ \A t \in DOMAIN pending : ~pending[t].isDone => t \in Queued
               /\ \A i, j \in 1..Len(workQ) : workQ[i] = workQ[j] => i = j)
    /\ [][(/\ aborted = "none"
           /\ lastOp'.op = "progress"
           /\ spin' # spin \/ aborted' # "none"
           /\ lastOp'.attempted # NoToken)
            => /\ lastOp'.attempted \in DOMAIN pending
               /\ ~pending[lastOp'.attempted].isDone]_vars

\* One request is parked and another has been completed by a progress step
\* and has left the work queue.
C34_Witness ==
    /\ aborted = "none"
    /\ Len(workQ) = 1
    /\ ~pending[Head(workQ)].isDone
    /\ \E t \in DOMAIN pending : pending[t].isDone /\ t \notin Queued
    /\ lastOp.op = "progress"
    /\ lastOp.attempted # NoToken
    /\ lastOp.req.isDone

\* C35: when poll returns, the packet buffer it obtained, allocated for a
\* send or taken from the receive queue, has been handed to the transport
\* or freed, also when the transmit burst would block and when validation
\* drops the received packet.
C35_NoBufferLeak ==
    plast.op = "poll" => plast.mbuf \in {"none", "sent", "freed"}

\* What holds of it: the buffer of a send that the transmit burst took is
\* with the transport, and the buffer of a received packet that passed
\* validation is freed.
C35_BufferReleased ==
    plast.op = "poll"
        => /\ plast.sent # <<>> => plast.mbuf = "sent"
           /\ (/\ plast.pkt # <<>>
               /\ plast.task.opcode = "POP"
               /\ plast.task.done) => plast.mbuf = "freed"

\* The step made a decoding attempt on a queue that is listening: a pop, or
\* a progress step on the pop at the head of the work queue.
ListenDecode ==
    /\ DecodeStep
    /\ lastOp'.op \in {"pop", "progress"}
    /\ listening
    /\ conn = "listen"

\* C36: a decoding attempt on a listening queue that accepts a connection
\* appends one entry to accepts, leaves the request done with the accepted
\* handle as its result, and reads nothing from the listening handle; when
\* the transport has no connection the attempt changes nothing.
C36_ListenDecode ==
    [][ListenDecode
         => IF backlog # <<>>
            THEN /\ accepts' = Append(accepts, Head(backlog))
                    \/ aborted' # "none"
                 /\ lastOp'.req.isDone
                 /\ lastOp'.req.res = Head(backlog).fd
                 /\ lastOp'.nreads = 0
            ELSE /\ lastOp'.req = DecodeBefore
                 /\ lastOp'.nreads = 0
                 /\ \/ accepts' = accepts /\ backlog' = backlog
                    \/ aborted' # "none"]_vars

\* What holds of it: the entry is appended, once, and the request is done;
\* without a connection nothing changes.
C36_AcceptAppends ==
    [][ListenDecode
         => IF backlog # <<>>
            THEN /\ \/ /\ accepts' = Append(accepts, Head(backlog))
                       /\ backlog' = Tail(backlog)
                    \/ aborted' # "none"
                 /\ lastOp'.req.isDone
            ELSE /\ lastOp'.req = DecodeBefore
                 /\ lastOp'.nreads = 0
                 /\ \/ accepts' = accepts /\ backlog' = backlog
                    \/ aborted' # "none"]_vars

====
